---- MODULE Spec2Model ----
(***************************************************************************)
(* Table reconstruction from positioned text fragments (bhardy/deyes).     *)
(*                                                                         *)
(* The engine is a set of pure functions over a list of TextItem records.  *)
(* The state of the model is one invocation: the fragment list handed in   *)
(* (items), the function last applied (call), the other arguments it got   *)
(* (arg) and what it returned (ret).  The React components CalibrationView *)
(* and HomeContent have their useState values in one record (ui); an event *)
(* handler is one step, and the part of an async handler after its await   *)
(* is a step of its own.                                                   *)
(*                                                                         *)
(* Text is a TLA+ string and the string functions of the source (trim,     *)
(* toLowerCase, includes, Number, the regular expressions) are computed    *)
(* character by character.  Coordinates are integers: every comparison of  *)
(* the source is linear in the coordinates, and the average of a row is    *)
(* compared by cross-multiplication, which is exact.  A value that may be  *)
(* null or undefined is a sequence of length at most one.  TextItem.width  *)
(* and TextItem.height are read by none of the functions modelled and are  *)
(* left out of the record.                                                 *)
(***************************************************************************)
EXTENDS Integers, Sequences, FiniteSets, TLC

VARIABLES items, call, arg, ret, ui

vars == <<items, call, arg, ret, ui>>

----------------------------------------------------------------------------
(* Bounds of the model *)

\* longest fragment list handed to the cell lookup functions
MaxLookupItems == 3
\* longest fragment list handed to the header and row-label discovery
MaxKeywordItems == 4
\* longest free-form fragment list handed to the grid reconstruction
MaxGridItems == 4
\* most rows of a table-shaped fragment list handed to the grid reconstruction
MaxTableRows == 3
\* most rows of a fragment list whose rows lie about TABLE_GAP_THRESHOLD apart
MaxGapRows == 3
\* longest fragment list handed to every operation in turn
MaxFrameItems == 3

----------------------------------------------------------------------------
(* Generic helpers *)

NULL == <<>>

Some(v) == <<v>>

Abs(n) == IF n < 0 THEN -n ELSE n

Front(s) == SubSeq(s, 1, Len(s) - 1)

Last(s) == s[Len(s)]

Range(s) == {s[i] : i \in 1..Len(s)}

SeqsUpTo(S, n) == UNION {[1..k -> S] : k \in 0..n}

RECURSIVE SetMin(_)
SetMin(S) ==
    LET e == CHOOSE v \in S : TRUE
    IN  IF S = {e} THEN e
        ELSE LET m == SetMin(S \ {e}) IN IF e < m THEN e ELSE m

\* Array.prototype.sort((a, b) => key(a) - key(b)) on <<key, value>> pairs:
\* ascending by key, and stable, so equal keys keep their input order.
RECURSIVE InsertStable(_, _)
InsertStable(sorted, p) ==
    IF sorted = <<>> THEN <<p>>
    ELSE IF Last(sorted)[1] <= p[1] THEN Append(sorted, p)
    ELSE Append(InsertStable(Front(sorted), p), Last(sorted))

RECURSIVE SortPrefix(_, _)
SortPrefix(ps, n) ==
    IF n = 0 THEN <<>> ELSE InsertStable(SortPrefix(ps, n - 1), ps[n])

StableSort(ps) == SortPrefix(ps, Len(ps))

Values(ps) == [i \in 1..Len(ps) |-> ps[i][2]]

----------------------------------------------------------------------------
(* Strings *)

WhiteSpace == {" ", "\t", "\n"}

UPPER == "ABCDEFGHIJKLMNOPQRSTUVWXYZ"

LOWER == "abcdefghijklmnopqrstuvwxyz"

CharAt(s, i) == SubSeq(s, i, i)

Rest(s) == SubSeq(s, 2, Len(s))

RECURSIVE trimStart(_)
trimStart(s) ==
    IF s # "" /\ CharAt(s, 1) \in WhiteSpace THEN trimStart(Rest(s)) ELSE s

RECURSIVE trimEnd(_)
trimEnd(s) ==
    IF s # "" /\ CharAt(s, Len(s)) \in WhiteSpace
    THEN trimEnd(SubSeq(s, 1, Len(s) - 1))
    ELSE s

trim(s) == trimEnd(trimStart(s))

\* the letters that toLowerCase and toUpperCase change, as <<upper, lower>>
CaseFold == [i \in 1..26 |-> <<CharAt(UPPER, i), CharAt(LOWER, i)>>]

UpperToLower == [c \in {CaseFold[i][1] : i \in 1..26} |->
                    (CHOOSE p \in Range(CaseFold) : p[1] = c)[2]]

LowerToUpper == [c \in {CaseFold[i][2] : i \in 1..26} |->
                    (CHOOSE p \in Range(CaseFold) : p[2] = c)[1]]

LowerChar(c) == IF c \in DOMAIN UpperToLower THEN UpperToLower[c] ELSE c

UpperChar(c) == IF c \in DOMAIN LowerToUpper THEN LowerToUpper[c] ELSE c

RECURSIVE toLowerCase(_)
toLowerCase(s) ==
    IF s = "" THEN "" ELSE LowerChar(CharAt(s, 1)) \o toLowerCase(Rest(s))

RECURSIVE toUpperCase(_)
toUpperCase(s) ==
    IF s = "" THEN "" ELSE UpperChar(CharAt(s, 1)) \o toUpperCase(Rest(s))

includes(s, t) ==
    \E i \in 1..(Len(s) - Len(t) + 1) : SubSeq(s, i, i + Len(t) - 1) = t

startsWith(s, t) == Len(t) <= Len(s) /\ SubSeq(s, 1, Len(t)) = t

endsWith(s, t) ==
    Len(t) <= Len(s) /\ SubSeq(s, Len(s) - Len(t) + 1, Len(s)) = t

Digits == {"0", "1", "2", "3", "4", "5", "6", "7", "8", "9"}

HexDigits == Digits \cup {"a", "b", "c", "d", "e", "f", "A", "B", "C", "D", "E", "F"}

\* the first index from i on that holds no character of chars
RECURSIVE skipChars(_, _, _)
skipChars(s, i, chars) ==
    IF i <= Len(s) /\ CharAt(s, i) \in chars THEN skipChars(s, i + 1, chars) ELSE i

\* the index after an optional exponent part starting at i, 0 if it is malformed
afterExponent(s, i) ==
    IF i <= Len(s) /\ CharAt(s, i) \in {"e", "E"}
    THEN LET d == IF i + 1 <= Len(s) /\ CharAt(s, i + 1) \in {"+", "-"}
                  THEN i + 2 ELSE i + 1
         IN  IF skipChars(s, d, Digits) > d THEN skipChars(s, d, Digits) ELSE 0
    ELSE i

\* the index after the mantissa starting at i (digits, with an optional point
\* before, within or after them), 0 if there is no digit
afterMantissa(s, i) ==
    LET a == skipChars(s, i, Digits)
        b == IF a <= Len(s) /\ CharAt(s, a) = "." THEN skipChars(s, a + 1, Digits)
             ELSE a
    IN  IF (a - i) + (IF b > a THEN b - a - 1 ELSE 0) >= 1 THEN b ELSE 0

\* StrUnsignedDecimalLiteral
isUnsignedDecimal(s) ==
    \/ s = "Infinity"
    \/ /\ afterMantissa(s, 1) # 0
       /\ afterExponent(s, afterMantissa(s, 1)) = Len(s) + 1

\* 0x.., 0o.., 0b..: no sign allowed
isNonDecimalInteger(s) ==
    /\ Len(s) >= 3
    /\ CharAt(s, 1) = "0"
    /\ \/ CharAt(s, 2) \in {"x", "X"} /\ skipChars(s, 3, HexDigits) = Len(s) + 1
       \/ CharAt(s, 2) \in {"o", "O"}
            /\ skipChars(s, 3, {"0", "1", "2", "3", "4", "5", "6", "7"}) = Len(s) + 1
       \/ CharAt(s, 2) \in {"b", "B"} /\ skipChars(s, 3, {"0", "1"}) = Len(s) + 1

isStringNumericLiteral(t) ==
    \/ t = ""
    \/ isNonDecimalInteger(t)
    \/ isUnsignedDecimal(IF CharAt(t, 1) \in {"+", "-"} THEN Rest(t) ELSE t)

\* isNaN(Number(s)): Number trims, reads "" as 0 and anything that is no
\* numeric literal as NaN
isNaNNumber(s) == ~ isStringNumericLiteral(trim(s))

\* /^\d+\.?\d*$/.test(s)
isPlainDecimal(s) ==
    LET a == skipChars(s, 1, Digits)
        b == IF a <= Len(s) /\ CharAt(s, a) = "." THEN a + 1 ELSE a
    IN  a > 1 /\ skipChars(s, b, Digits) = Len(s) + 1

\* s.replace(/[,\s%$]/g, "")
RECURSIVE stripSymbols(_)
stripSymbols(s) ==
    IF s = "" THEN ""
    ELSE IF CharAt(s, 1) \in WhiteSpace \cup {",", "%", "$"} THEN stripSymbols(Rest(s))
    ELSE CharAt(s, 1) \o stripSymbols(Rest(s))

----------------------------------------------------------------------------
(* Fragments *)

TextItem(s, px, py) == [str |-> s, x |-> px, y |-> py]

\* The caller takes the result; the engine keeps nothing of the invocation.
Return ==
    /\ call # "none"
    /\ call' = "none"
    /\ arg' = <<>>
    /\ ret' = <<>>
    /\ UNCHANGED items
    /\ UNCHANGED ui

----------------------------------------------------------------------------
(* Keyword direct-lookup path *)

HEADER_KEYWORDS ==
    {"calorie", "fat", "sodium", "carb", "protein", "sugar", "fiber",
     "serving", "weight", "cholesterol", "vitamin", "calcium", "iron"}

SECTION_KEYWORDS ==
    {"toppings", "appetizers", "wings", "salads", "dressings", "wraps",
     "pastas", "meat", "chicken", "veggie", "cheese", "desserts",
     "beverages", "kids", "pizzas", "nutrition facts", "daily value"}

DEFAULT_X_TOLERANCE == 40

DEFAULT_Y_TOLERANCE == 15

\* nearIntersection with the tolerance itself let through
nearIntersectionInclusive(item, headerItem, rowItem, xTolerance, yTolerance) ==
    LET xDiff == Abs(item.x - headerItem.x)
        yDiff == Abs(item.y - rowItem.y)
    IN  xDiff <= xTolerance /\ yDiff <= yTolerance /\ Len(trim(item.str)) > 0

\* the filter of findCellValue: the fragments near the intersection
nearIntersection(item, headerItem, rowItem, xTolerance, yTolerance) ==
    LET xDiff == Abs(item.x - headerItem.x)
        yDiff == Abs(item.y - rowItem.y)
    IN  xDiff < xTolerance /\ yDiff < yTolerance /\ Len(trim(item.str)) > 0

\* the sort key of findCellValue
manhattan(item, headerItem, rowItem) ==
    Abs(item.x - headerItem.x) + Abs(item.y - rowItem.y)

\* sortByDistance with the sort left out: the candidates in list order
sortByDistanceSkipped(candidates, headerItem, rowItem) == candidates

\* candidates.sort(...) of findCellValue
sortByDistance(candidates, headerItem, rowItem) ==
    Values(StableSort([i \in 1..Len(candidates) |->
        <<manhattan(candidates[i], headerItem, rowItem), candidates[i]>>]))

findCellValue(its, headerItem, rowItem, xTolerance, yTolerance) ==
    LET Near(item) ==
            nearIntersection(item, headerItem, rowItem, xTolerance, yTolerance)
        candidates == SelectSeq(its, Near)
    IN  IF Len(candidates) = 0 THEN NULL
        ELSE Some(trim(sortByDistance(candidates, headerItem, rowItem)[1].str))

\* one iteration of the loop of getAllRowValues: values[header.text] = value,
\* a later header of the same text overwriting an earlier one; `if (value)`
\* drops null and "".
setRowValue(values, text, value) ==
    IF value # NULL /\ value[1] # ""
    THEN [t \in DOMAIN values \cup {text} |-> IF t = text THEN value[1] ELSE values[t]]
    ELSE values

RECURSIVE rowValuesFrom(_, _, _, _, _)
rowValuesFrom(its, headers, rowItem, i, values) ==
    IF i > Len(headers) THEN values
    ELSE rowValuesFrom(its, headers, rowItem, i + 1,
            setRowValue(values, headers[i].text,
                findCellValue(its, headers[i].item, rowItem,
                              DEFAULT_X_TOLERANCE, DEFAULT_Y_TOLERANCE)))

\* getAllRowValues returning after the first header
getAllRowValuesFirstHeader(its, headers, rowItem) ==
    IF Len(headers) = 0 THEN <<>>
    ELSE rowValuesFrom(its, <<headers[1]>>, rowItem, 1, <<>>)

getAllRowValues(its, headers, rowItem) ==
    rowValuesFrom(its, headers, rowItem, 1, <<>>)

hasHeaderKeyword(textLower) == \E kw \in HEADER_KEYWORDS : includes(textLower, kw)

isHeader(text) == hasHeaderKeyword(toLowerCase(text))

\* addHeader without the has() test: a later fragment of the same text
\* replaces the first one in the Map
addHeaderLastWins(seen, item, text) ==
    IF Len(text) < 2 \/ ~ \E kw \in HEADER_KEYWORDS : includes(toLowerCase(text), kw)
    THEN seen
    ELSE IF \E i \in 1..Len(seen) : seen[i].text = text
         THEN [i \in 1..Len(seen) |->
                  IF seen[i].text = text THEN [text |-> text, item |-> item]
                  ELSE seen[i]]
         ELSE Append(seen, [text |-> text, item |-> item])

\* one iteration of the loop of findHeaders: the Map, in insertion order
addHeader(seen, item, text) ==
    IF Len(text) < 2 THEN seen
    ELSE IF isHeader(text) /\ \A i \in 1..Len(seen) : seen[i].text # text
         THEN Append(seen, [text |-> text, item |-> item])
         ELSE seen

RECURSIVE uniqueHeaders(_, _, _)
uniqueHeaders(its, i, seen) ==
    IF i > Len(its) THEN seen
    ELSE uniqueHeaders(its, i + 1, addHeader(seen, its[i], trim(its[i].str)))

sortByItemX(entries) ==
    Values(StableSort([i \in 1..Len(entries) |-> <<entries[i].item.x, entries[i]>>]))

findHeaders(its) == sortByItemX(uniqueHeaders(its, 1, <<>>))

\* the sort by Y left out: the fragments are walked in the order given
sortByYSkipped(its) == its

\* [...items].sort((a, b) => a.y - b.y)
sortByY(its) == Values(StableSort([i \in 1..Len(its) |-> <<its[i].y, its[i]>>]))

matchesSectionKeyword(textLower) ==
    \E kw \in SECTION_KEYWORDS :
        \/ textLower = kw
        \/ startsWith(textLower, kw \o " ")
        \/ endsWith(textLower, " " \o kw)
        \/ textLower = toUpperCase(kw)

isSection(text) == Len(text) < 25 /\ matchesSectionKeyword(toLowerCase(text))

\* rowItemsStep classifying before it deduplicates: a repeated section
\* marker becomes the current section again
rowItemsStepSectionFirst(st, item, text) ==
    IF Len(text) < 25 /\ matchesSectionKeyword(toLowerCase(text))
    THEN [st EXCEPT !.seen = @ \cup {text}, !.currentSection = text]
    ELSE IF text \in st.seen THEN st
         ELSE [st EXCEPT !.seen = @ \cup {text},
                   !.rowItems = Append(@,
                       [text |-> text, item |-> item,
                        section |-> IF st.currentSection = "" THEN NULL
                                    ELSE Some(st.currentSection)])]

\* one iteration of the loop of findRowItems on the state
\* <<seen, rowItems, currentSection>>
rowItemsStep(st, item, text) ==
    IF text \in st.seen THEN st
    ELSE IF isSection(text)
         THEN [st EXCEPT !.seen = @ \cup {text}, !.currentSection = text]
         ELSE [st EXCEPT !.seen = @ \cup {text},
                   !.rowItems = Append(@,
                       [text |-> text, item |-> item,
                        section |-> IF st.currentSection = "" THEN NULL
                                    ELSE Some(st.currentSection)])]

RECURSIVE rowItemsWalk(_, _, _)
rowItemsWalk(sorted, i, st) ==
    IF i > Len(sorted) THEN st
    ELSE rowItemsWalk(sorted, i + 1,
                      rowItemsStep(st, sorted[i], trim(sorted[i].str)))

\* the left column band of findRowItems, before sorting
leftItems(its, headerY) ==
    LET Below(item) == item.y > headerY + 5
        belowHeader == SelectSeq(its, Below)
        minX        == SetMin({belowHeader[i].x : i \in 1..Len(belowHeader)})
        Left(item)  == item.x < minX + 100 /\ Len(trim(item.str)) > 2
    IN  IF Len(belowHeader) = 0 THEN <<>> ELSE SelectSeq(belowHeader, Left)

findRowItems(its, headerY) ==
    rowItemsWalk(sortByY(leftItems(its, headerY)), 1,
                 [seen |-> {}, rowItems |-> <<>>, currentSection |-> ""]).rowItems

----------------------------------------------------------------------------
(* Inputs of the keyword direct-lookup path *)

\* Fragments around the intersection of column x = 150 and row y = 130:
\* on it, at distance 10 on either axis, on the tolerance (40 and 15), just
\* inside it, and a blank run, which only the filter of findCellValue keeps out.
LookupPool ==
    {TextItem("Calories", 150, 100), TextItem("Cheese Pizza", 20, 130),
     TextItem("290", 150, 130), TextItem(" 60 ", 140, 130),
     TextItem("12g", 150, 140), TextItem("7", 110, 130),
     TextItem("8", 150, 145), TextItem("9g", 189, 144),
     TextItem("Total Fat", 180, 100), TextItem("  ", 150, 130)}

Tolerances == {<<DEFAULT_X_TOLERANCE, DEFAULT_Y_TOLERANCE>>, <<11, 31>>}

InitLookup ==
    /\ items \in SeqsUpTo(LookupPool, MaxLookupItems)
    /\ call = "none"
    /\ arg = <<>>
    /\ ret = <<>>
    /\ ui = <<>>

\* Header fragments (one text twice up to blanks, two at one X, one in upper
\* case) and left-margin fragments: section markers (one of them twice), row
\* labels and a label too short to count.  With the margin at x <= 50 the
\* header at x = 150 lies right of the margin band.
KeywordPool ==
    {TextItem("Calories", 150, 100), TextItem(" Calories ", 60, 100),
     TextItem("SODIUM", 60, 100),
     TextItem("Toppings", 20, 110), TextItem("Toppings", 20, 150),
     TextItem("Wings", 20, 130), TextItem("Pepperoni", 20, 170),
     TextItem("Mozzarella Cheese PPP", 25, 120),
     TextItem("ab", 10, 160)}

\* the callers pass the least Y of the discovered headers
HeaderYs == {95, 125}

InitKeyword ==
    /\ items \in SeqsUpTo(KeywordPool, MaxKeywordItems)
    /\ call = "none"
    /\ arg = <<>>
    /\ ret = <<>>
    /\ ui = <<>>

----------------------------------------------------------------------------
(* Operations of the keyword direct-lookup path *)

FindCellValue ==
    \E headerItem \in Range(items), rowItem \in Range(items), tol \in Tolerances :
        /\ call = "none"
        /\ call' = "findCellValue"
        /\ arg' = [headerItem |-> headerItem, rowItem |-> rowItem,
                   xTolerance |-> tol[1], yTolerance |-> tol[2]]
        /\ ret' = findCellValue(items, headerItem, rowItem, tol[1], tol[2])
        /\ UNCHANGED items
        /\ UNCHANGED ui

\* every caller passes the headers that findHeaders discovered in the same list
GetAllRowValues ==
    \E rowItem \in Range(items) :
        /\ call = "none"
        /\ call' = "getAllRowValues"
        /\ arg' = [headers |-> findHeaders(items), rowItem |-> rowItem]
        /\ ret' = getAllRowValues(items, findHeaders(items), rowItem)
        /\ UNCHANGED items
        /\ UNCHANGED ui

FindHeaders ==
    /\ call = "none"
    /\ call' = "findHeaders"
    /\ arg' = <<>>
    /\ ret' = findHeaders(items)
    /\ UNCHANGED items
    /\ UNCHANGED ui

FindRowItems ==
    \E headerY \in HeaderYs :
        /\ call = "none"
        /\ call' = "findRowItems"
        /\ arg' = [headerY |-> headerY]
        /\ ret' = findRowItems(items, headerY)
        /\ UNCHANGED items
        /\ UNCHANGED ui

NextKeyword == FindHeaders \/ FindRowItems \/ Return

SpecKeyword == InitKeyword /\ [][NextKeyword]_vars

NextLookup == FindCellValue \/ GetAllRowValues \/ Return

SpecLookup == InitLookup /\ [][NextLookup]_vars

----------------------------------------------------------------------------
(* Grid reconstruction: rows, column anchors, cells *)

Y_TOLERANCE == 2

X_TOLERANCE == 8

TABLE_GAP_THRESHOLD == 25

MIN_TABLE_ROWS == 2

MIN_COLUMNS == 2

\* Y_TOLERANCE of the earlier groupIntoRows, which compares with the Y of the
\* first fragment of the row
Y_TOLERANCE_FIRST_Y == 3

\* currentRow.sort((a, b) => a.x - b.x) with the sort left out
sortByXSkipped(row) == row

\* currentRow.sort((a, b) => a.x - b.x) by a sort that is not stable: equal X
\* come out in the reverse of their order in the row
sortByXUnstable(row) ==
    LET n == Len(row)
        reversed == [i \in 1..n |-> row[n + 1 - i]]
    IN  Values(StableSort([i \in 1..n |-> <<reversed[i].x, reversed[i]>>]))

\* items.sort(...) without the spread: sort orders the array it is called on
\* in place, and the caller's list is left in the sorted order
afterSortInPlace(its, sorted) == sorted

\* the caller's list after [...items].sort(...): the spread makes a new array
\* and that one is sorted, the list passed in keeps its order
afterSortOfCopy(its, sorted) == its

\* currentRow.sort((a, b) => a.x - b.x)
sortByX(row) == Values(StableSort([i \in 1..Len(row) |-> <<row[i].x, row[i]>>]))

RECURSIVE sumY(_, _)
sumY(row, n) == IF n = 0 THEN 0 ELSE sumY(row, n - 1) + row[n].y

\* Math.abs(item.y - getRowAvgY(currentRow)) <= Y_TOLERANCE, both sides
\* multiplied by the length of the row
nearRowAvgY(item, currentRow) ==
    Abs(Len(currentRow) * item.y - sumY(currentRow, Len(currentRow)))
        <= Y_TOLERANCE * Len(currentRow)

\* the loop of groupIntoRows without the push of the last row
RECURSIVE groupWalkForgetsLast(_, _, _, _)
groupWalkForgetsLast(sorted, i, rows, currentRow) ==
    IF i > Len(sorted)
    THEN rows
    ELSE IF nearRowAvgY(sorted[i], currentRow)
         THEN groupWalkForgetsLast(sorted, i + 1, rows, Append(currentRow, sorted[i]))
         ELSE groupWalkForgetsLast(sorted, i + 1,
                        IF Len(currentRow) > 0
                        THEN Append(rows, sortByX(currentRow)) ELSE rows,
                        <<sorted[i]>>)

\* the loop of groupIntoRows from sorted[i] on, and the push of the last row
RECURSIVE groupWalk(_, _, _, _)
groupWalk(sorted, i, rows, currentRow) ==
    IF i > Len(sorted)
    THEN IF Len(currentRow) > 0 THEN Append(rows, sortByX(currentRow)) ELSE rows
    ELSE IF nearRowAvgY(sorted[i], currentRow)
         THEN groupWalk(sorted, i + 1, rows, Append(currentRow, sorted[i]))
         ELSE groupWalk(sorted, i + 1,
                        IF Len(currentRow) > 0
                        THEN Append(rows, sortByX(currentRow)) ELSE rows,
                        <<sorted[i]>>)

groupSorted(sorted) == groupWalk(sorted, 2, <<>>, <<sorted[1]>>)

groupIntoRows(its) == IF Len(its) = 0 THEN <<>> ELSE groupSorted(sortByY(its))

\* the earlier groupIntoRows: currentY is the Y of the first fragment of the row
RECURSIVE groupWalkFirstY(_, _, _, _, _)
groupWalkFirstY(sorted, i, rows, currentRow, currentY) ==
    IF i > Len(sorted)
    THEN IF Len(currentRow) > 0 THEN Append(rows, sortByX(currentRow)) ELSE rows
    ELSE IF Abs(sorted[i].y - currentY) <= Y_TOLERANCE_FIRST_Y
         THEN groupWalkFirstY(sorted, i + 1, rows,
                              Append(currentRow, sorted[i]), currentY)
         ELSE groupWalkFirstY(sorted, i + 1,
                              IF Len(currentRow) > 0
                              THEN Append(rows, sortByX(currentRow)) ELSE rows,
                              <<sorted[i]>>, sorted[i].y)

groupSortedFirstY(sorted) ==
    groupWalkFirstY(sorted, 2, <<>>, <<sorted[1]>>, sorted[1].y)

groupIntoRowsFirstY(its) ==
    IF Len(its) = 0 THEN <<>> ELSE groupSortedFirstY(sortByY(its))

\* counts[count] of findTypicalColumnCount
rowsOfLength(rows, n) == Cardinality({r \in 1..Len(rows) : Len(rows[r]) = n})

\* the loop over Object.entries(counts): the keys of counts are integers, which
\* an object enumerates in ascending order whatever order they were set in
maxRowLength(rows) ==
    IF Len(rows) = 0 THEN 0
    ELSE CHOOSE n \in {Len(rows[r]) : r \in 1..Len(rows)} :
            \A r \in 1..Len(rows) : Len(rows[r]) <= n

\* the loop with >= for >: of two lengths as frequent the later one wins
RECURSIVE typicalWalkLastWins(_, _, _, _, _)
typicalWalkLastWins(rows, last, cols, maxCount, typicalCols) ==
    IF cols > last THEN typicalCols
    ELSE LET count == rowsOfLength(rows, cols)
         IN  IF count > 0 /\ cols >= MIN_COLUMNS /\ count >= maxCount
             THEN typicalWalkLastWins(rows, last, cols + 1, count, cols)
             ELSE typicalWalkLastWins(rows, last, cols + 1, maxCount, typicalCols)

RECURSIVE typicalWalk(_, _, _, _, _)
typicalWalk(rows, last, cols, maxCount, typicalCols) ==
    IF cols > last THEN typicalCols
    ELSE LET count == rowsOfLength(rows, cols)
         IN  IF count > 0 /\ cols >= MIN_COLUMNS /\ count > maxCount
             THEN typicalWalk(rows, last, cols + 1, count, cols)
             ELSE typicalWalk(rows, last, cols + 1, maxCount, typicalCols)

findTypicalColumnCount(rows) == typicalWalk(rows, maxRowLength(rows), 0, 0, 0)

sortNumbers(xs) == Values(StableSort([i \in 1..Len(xs) |-> <<xs[i], xs[i]>>]))

\* xValues[Math.floor(xValues.length / 2)] of the sorted values
median(sortedXs) == sortedXs[(Len(sortedXs) \div 2) + 1]

\* Math.round(a / b) for b > 0: halves go up
RoundDiv(a, b) == (2 * a + b) \div (2 * b)

RECURSIVE sum(_, _)
sum(xs, n) == IF n = 0 THEN 0 ELSE sum(xs, n - 1) + xs[n]

RECURSIVE sortSet(_)
sortSet(S) ==
    IF S = {} THEN <<>> ELSE <<SetMin(S)>> \o sortSet(S \ {SetMin(S)})

clusterCentre(clusterPositions) ==
    RoundDiv(sum(clusterPositions, Len(clusterPositions)), Len(clusterPositions))

\* the loop of detectColumnBoundariesFallback from positions[i] on, and the
\* push of the last cluster
RECURSIVE clusterWalk(_, _, _, _)
clusterWalk(positions, i, clusters, clusterPositions) ==
    IF i > Len(positions)
    THEN IF Len(clusterPositions) > 0
         THEN Append(clusters, clusterCentre(clusterPositions)) ELSE clusters
    ELSE IF positions[i] - positions[i - 1] <= X_TOLERANCE * 2
         THEN clusterWalk(positions, i + 1, clusters,
                          Append(clusterPositions, positions[i]))
         ELSE clusterWalk(positions, i + 1,
                          Append(clusters, clusterCentre(clusterPositions)),
                          <<positions[i]>>)

clusterPositionsOf(positions) ==
    IF Len(positions) = 0 THEN <<>>
    ELSE clusterWalk(positions, 2, <<>>, <<positions[1]>>)

\* the keys of xPositionCounts: every X rounded to the nearest 5
roundedXs(rows) ==
    UNION {{RoundDiv(rows[r][k].x, 5) * 5 : k \in 1..Len(rows[r])} :
              r \in 1..Len(rows)}

detectColumnBoundariesFallback(rows) ==
    clusterPositionsOf(sortSet(roundedXs(rows)))

\* the rows with more fragments than the typical count
consistentRowsWider(rows, typicalCols) ==
    LET Wider(row) == Len(row) > typicalCols
    IN  SelectSeq(rows, Wider)

\* rows.filter(row => row.length === typicalCols)
consistentRows(rows, typicalCols) ==
    LET Consistent(row) == Len(row) = typicalCols
    IN  SelectSeq(rows, Consistent)

\* the median X of column i over the consistent rows
columnMedian(consistent, i) ==
    median(sortNumbers([r \in 1..Len(consistent) |-> consistent[r][i].x]))

medianBoundaries(consistent, typicalCols) ==
    [i \in 1..typicalCols |-> columnMedian(consistent, i)]

detectColumnBoundaries(rows, typicalCols) ==
    LET consistent == consistentRows(rows, typicalCols)
    IN  IF Len(consistent) = 0 THEN detectColumnBoundariesFallback(rows)
        ELSE medianBoundaries(consistent, typicalCols)

\* closestWalk taking the farther anchor
closestWalkFarthest(item, columnBoundaries, i, closestCol, closestDist) ==
    CHOOSE c \in 1..Len(columnBoundaries) :
        \A d \in 1..Len(columnBoundaries) :
            Abs(item.x - columnBoundaries[d]) <= Abs(item.x - columnBoundaries[c])

\* the inner loop with <= for <: of two anchors as close the later one wins
RECURSIVE closestWalkLastWins(_, _, _, _, _)
closestWalkLastWins(item, columnBoundaries, i, closestCol, closestDist) ==
    IF i > Len(columnBoundaries) THEN closestCol
    ELSE LET dist == Abs(item.x - columnBoundaries[i])
         IN  IF dist <= closestDist
             THEN closestWalkLastWins(item, columnBoundaries, i + 1, i, dist)
             ELSE closestWalkLastWins(item, columnBoundaries, i + 1, closestCol,
                                      closestDist)

\* the inner loop of mapRowToColumns from anchor i on (anchors counted from 1)
RECURSIVE closestWalk(_, _, _, _, _)
closestWalk(item, columnBoundaries, i, closestCol, closestDist) ==
    IF i > Len(columnBoundaries) THEN closestCol
    ELSE LET dist == Abs(item.x - columnBoundaries[i])
         IN  IF dist < closestDist
             THEN closestWalk(item, columnBoundaries, i + 1, i, dist)
             ELSE closestWalk(item, columnBoundaries, i + 1, closestCol, closestDist)

\* closestCol of an item; with no anchor at all the distance is NaN, no
\* comparison succeeds and closestCol stays the first index
closestColumn(item, columnBoundaries) ==
    IF Len(columnBoundaries) = 0 THEN 1
    ELSE closestWalk(item, columnBoundaries, 2, 1,
                     Abs(item.x - columnBoundaries[1]))

\* result[closestCol] += " " + item.str, or = item.str when the cell is "";
\* writing result[0] of an empty array makes it one cell long
appendToCell(result, col, str) ==
    [c \in 1..(IF col > Len(result) THEN col ELSE Len(result)) |->
        IF c # col THEN result[c]
        ELSE IF c <= Len(result) /\ result[c] # "" THEN result[c] \o " " \o str
        ELSE str]

RECURSIVE mapWalk(_, _, _, _)
mapWalk(row, columnBoundaries, k, result) ==
    IF k > Len(row) THEN result
    ELSE mapWalk(row, columnBoundaries, k + 1,
                 appendToCell(result, closestColumn(row[k], columnBoundaries),
                              row[k].str))

mapRowToColumns(row, columnBoundaries) ==
    mapWalk(row, columnBoundaries, 1, [c \in 1..Len(columnBoundaries) |-> ""])

\* gap > TABLE_GAP_THRESHOLD with the threshold itself splitting
gapSplitsInclusive(gap) == gap >= TABLE_GAP_THRESHOLD

\* the test of splitIntoTables on the gap between two rows
gapSplits(gap) == gap > TABLE_GAP_THRESHOLD

\* the Y of the first fragment of the row in place of the least Y
rowFirstY(row) == row[1].y

\* Math.min(...row.map(item => item.y))
rowMinY(row) == SetMin({row[k].y : k \in 1..Len(row)})

\* the loop of splitIntoTables with the last segment kept whatever its length
RECURSIVE splitWalkKeepsLast(_, _, _, _)
splitWalkKeepsLast(rows, i, tables, currentTable) ==
    IF i > Len(rows)
    THEN Append(tables, currentTable)
    ELSE IF gapSplits(rowMinY(rows[i]) - rowMinY(rows[i - 1]))
         THEN splitWalkKeepsLast(rows, i + 1,
                        IF Len(currentTable) >= MIN_TABLE_ROWS
                        THEN Append(tables, currentTable) ELSE tables,
                        <<rows[i]>>)
         ELSE splitWalkKeepsLast(rows, i + 1, tables, Append(currentTable, rows[i]))

RECURSIVE splitWalk(_, _, _, _)
splitWalk(rows, i, tables, currentTable) ==
    IF i > Len(rows)
    THEN IF Len(currentTable) >= MIN_TABLE_ROWS
         THEN Append(tables, currentTable) ELSE tables
    ELSE IF gapSplits(rowMinY(rows[i]) - rowMinY(rows[i - 1]))
         THEN splitWalk(rows, i + 1,
                        IF Len(currentTable) >= MIN_TABLE_ROWS
                        THEN Append(tables, currentTable) ELSE tables,
                        <<rows[i]>>)
         ELSE splitWalk(rows, i + 1, tables, Append(currentTable, rows[i]))

splitIntoTables(rows) ==
    IF Len(rows) = 0 THEN <<>> ELSE splitWalk(rows, 2, <<>>, <<rows[1]>>)

\* the test of findHeaderRowIndex: a cell that is text, not a number
isTextCell(cleaned) == isNaNNumber(cleaned) /\ ~ isPlainDecimal(cleaned)

\* the non-empty cells of row[1..], trimmed
filledCells(row) ==
    {j \in 2..Len(row) : trim(row[j]) # ""}

\* more than half of the filled cells after the label are text
looksLikeHeader(row) ==
    /\ Cardinality(filledCells(row)) > 0
    /\ 2 * Cardinality({j \in filledCells(row) :
                            isTextCell(stripSymbols(trim(row[j])))})
          > Cardinality(filledCells(row))

\* the loop of findHeaderRowIndex; i and the result count rows from 0
RECURSIVE headerWalk(_, _)
headerWalk(mappedRows, i) ==
    IF i >= (IF Len(mappedRows) < 5 THEN Len(mappedRows) ELSE 5) THEN 0
    ELSE IF looksLikeHeader(mappedRows[i + 1]) THEN i
    ELSE headerWalk(mappedRows, i + 1)

findHeaderRowIndex(mappedRows) == headerWalk(mappedRows, 0)

\* the cell at index j (from 0) of a mapped row, trimmed; "" when undefined
cellAt(row, j) == IF j + 1 <= Len(row) THEN trim(row[j + 1]) ELSE ""

\* numericCells of rowsToTable: the cells after the label that clean to a
\* non-empty number
numericCells(rowData) ==
    Cardinality({j \in 2..Len(rowData) :
        /\ stripSymbols(trim(rowData[j])) # ""
        /\ ~ isNaNNumber(stripSymbols(trim(rowData[j])))})

\* the sub-header test made on the label and on the share of the cells after
\* the label
isNonDataRowByLabel(rowData) ==
    /\ isNaNNumber(stripSymbols(cellAt(rowData, 0)))
    /\ 3 * numericCells(rowData) < Len(rowData) - 1

\* the sub-header test of rowsToTable
isNonDataRow(rowData) ==
    /\ cellAt(rowData, 1) # ""
    /\ isNaNNumber(stripSymbols(cellAt(rowData, 1)))
    /\ 3 * numericCells(rowData) < Len(rowData)

columnPlaceholder(j) == "Column " \o ToString(j)

\* the loop that fills values, leaving out the cells that are empty
RECURSIVE valuesWalkFilledOnly(_, _, _, _)
valuesWalkFilledOnly(headers, rowData, j, values) ==
    IF j >= (IF Len(headers) < Len(rowData) THEN Len(headers) ELSE Len(rowData))
    THEN values
    ELSE LET header == cellAt(headers, j)
         IN  IF header # "" /\ header # columnPlaceholder(j) /\ cellAt(rowData, j) # ""
             THEN valuesWalkFilledOnly(headers, rowData, j + 1,
                    [t \in DOMAIN values \cup {header} |->
                        IF t = header THEN cellAt(rowData, j) ELSE values[t]])
             ELSE valuesWalkFilledOnly(headers, rowData, j + 1, values)

\* the loop that fills values, from column j (from 0) on
RECURSIVE valuesWalk(_, _, _, _)
valuesWalk(headers, rowData, j, values) ==
    IF j >= (IF Len(headers) < Len(rowData) THEN Len(headers) ELSE Len(rowData))
    THEN values
    ELSE LET header == cellAt(headers, j)
         IN  IF header # "" /\ header # columnPlaceholder(j)
             THEN valuesWalk(headers, rowData, j + 1,
                    [t \in DOMAIN values \cup {header} |->
                        IF t = header THEN cellAt(rowData, j) ELSE values[t]])
             ELSE valuesWalk(headers, rowData, j + 1, values)

rowValues(headers, rowData) == valuesWalk(headers, rowData, 1, <<>>)

rowId(tableIndex, i) ==
    "table-" \o ToString(tableIndex) \o "-row-" \o ToString(i)

\* the loop over the data rows, from row i (from 0) on
RECURSIVE dataRowsWalk(_, _, _, _, _)
dataRowsWalk(mappedRows, headers, tableIndex, i, tableRows) ==
    IF i >= Len(mappedRows) THEN tableRows
    ELSE LET rowData == mappedRows[i + 1]
             label   == cellAt(rowData, 0)
             values  == rowValues(headers, rowData)
         IN  IF Len(label) < 2 \/ isNonDataRow(rowData) \/ DOMAIN values = {}
             THEN dataRowsWalk(mappedRows, headers, tableIndex, i + 1, tableRows)
             ELSE dataRowsWalk(mappedRows, headers, tableIndex, i + 1,
                    Append(tableRows,
                        [id |-> rowId(tableIndex, i), label |-> label,
                         values |-> values]))

\* validHeaders taken from the whole header row, label column included
validHeadersFromLabel(headers) ==
    LET NonEmpty(h) == h # ""
    IN  SelectSeq([j \in 1..Len(headers) |-> trim(headers[j])], NonEmpty)

\* headers.slice(1).map(h => h?.trim() || "").filter(h => h && h.length > 0)
validHeaders(headers) ==
    LET NonEmpty(h) == h # ""
    IN  SelectSeq([j \in 1..(Len(headers) - 1) |-> trim(headers[j + 1])], NonEmpty)

\* rowsToTable from the mapped rows on, without the return of null for a
\* table that has no row
tableOfMappedRowsAnyRows(mappedRows, tableIndex) ==
    LET headerRowIndex == findHeaderRowIndex(mappedRows)
        headers        == mappedRows[headerRowIndex + 1]
    IN  Some([id |-> "table-" \o ToString(tableIndex),
              headers |-> validHeaders(headers),
              rows |-> dataRowsWalk(mappedRows, headers, tableIndex,
                                    headerRowIndex + 1, <<>>)])

\* rowsToTable from the mapped rows on
tableOfMappedRows(mappedRows, tableIndex) ==
    LET headerRowIndex == findHeaderRowIndex(mappedRows)
        headers        == mappedRows[headerRowIndex + 1]
        tableRows      == dataRowsWalk(mappedRows, headers, tableIndex,
                                       headerRowIndex + 1, <<>>)
    IN  IF Len(tableRows) = 0 THEN NULL
        ELSE Some([id |-> "table-" \o ToString(tableIndex),
                   headers |-> validHeaders(headers),
                   rows |-> tableRows])

mapRows(rows, columnBoundaries) ==
    [r \in 1..Len(rows) |-> mapRowToColumns(rows[r], columnBoundaries)]

rowsToTable(rows, tableIndex) ==
    IF Len(rows) < MIN_TABLE_ROWS THEN NULL
    ELSE LET typicalCols == findTypicalColumnCount(rows)
             columnBoundaries == detectColumnBoundaries(rows, typicalCols)
         IN  IF typicalCols < MIN_COLUMNS THEN NULL
             ELSE IF Len(columnBoundaries) < MIN_COLUMNS THEN NULL
             ELSE tableOfMappedRows(mapRows(rows, columnBoundaries), tableIndex)

\* the loop of detectTables with table.rows.length > 0 as its only test:
\* reading rows of the null that rowsToTable returned throws a TypeError
RECURSIVE tablesWalkUnguarded(_, _, _)
tablesWalkUnguarded(tableGroups, i, tables) ==
    IF i >= Len(tableGroups) THEN tables
    ELSE LET table == rowsToTable(tableGroups[i + 1], i)
         IN  IF table = NULL THEN <<[thrown |-> "TypeError"]>>
             ELSE tablesWalkUnguarded(tableGroups, i + 1,
                    IF Len(table[1].rows) > 0
                    THEN Append(tables, table[1]) ELSE tables)

\* the loop of detectTables over the table groups, from group i (from 0) on
RECURSIVE tablesWalk(_, _, _)
tablesWalk(tableGroups, i, tables) ==
    IF i >= Len(tableGroups) THEN tables
    ELSE LET table == rowsToTable(tableGroups[i + 1], i)
         IN  tablesWalk(tableGroups, i + 1,
                IF table # NULL /\ Len(table[1].rows) > 0
                THEN Append(tables, table[1]) ELSE tables)

tablesOfRows(rows) ==
    IF Len(rows) < MIN_TABLE_ROWS THEN <<>>
    ELSE tablesWalk(splitIntoTables(rows), 0, <<>>)

detectTables(its) == tablesOfRows(groupIntoRows(its))

----------------------------------------------------------------------------
(* Inputs of the grid reconstruction *)

PermutationsOf(S) == {p \in [1..Cardinality(S) -> S] : Range(p) = S}

\* The scenario of the specification, with the data row at several distances
\* below the header row (the scenario itself has it at y = 130).
ScenarioRowYs == {102, 103, 125, 126, 130}

ScenarioFragments(rowY) ==
    {TextItem("Calories", 150, 100), TextItem("Cheese Pizza", 20, rowY),
     TextItem("290", 150, rowY)}

ScenarioInputs == UNION {PermutationsOf(ScenarioFragments(y)) : y \in ScenarioRowYs}

\* Free-form lists: two columns, Y within and beyond the row tolerance of each
\* other, and two different fragments at one place.
GridPool ==
    {TextItem("a", px, py) : px \in {20, 150}, py \in {100, 102, 103}}
        \cup {TextItem("b", 20, 100)}

ListInputs == SeqsUpTo(GridPool, MaxGridItems)

\* Table-shaped lists: row r at y = 90 + 10 r holds any of a label at x = 20,
\* a first value at x = 150 or 160 and a second value at x = 250, in reading
\* order.
CellText(r, c) ==
    IF r = 1 THEN <<"Item", "Calories", "Fat">>[c]
    ELSE IF r = 2 THEN <<"Cheese Pizza", "290", "12g">>[c]
    ELSE <<"Pizza " \o ToString(r), ToString(100 * r), ToString(r) \o "g">>[c]

RowShapes ==
    {<<>>, <<20>>} \X {<<>>, <<150>>, <<160>>} \X {<<>>, <<250>>}

TableRow(r, shape) ==
    LET cell(c) == IF shape[c] = <<>> THEN <<>>
                   ELSE <<TextItem(CellText(r, c), shape[c][1], 90 + 10 * r)>>
    IN  cell(1) \o cell(2) \o cell(3)

RECURSIVE TableItems(_, _)
TableItems(shapes, r) ==
    IF r = 0 THEN <<>> ELSE TableItems(shapes, r - 1) \o TableRow(r, shapes[r])

TableInputs ==
    {TableItems(shapes, MaxTableRows) : shapes \in [1..MaxTableRows -> RowShapes]}

\* Lists whose rows lie on either side of TABLE_GAP_THRESHOLD from each other:
\* a row is a label alone, or a label 2 below its value, so that the least Y of
\* a row is not always that of its first fragment, and the next row has its
\* least Y 25 or 26 below the least Y of the row before.
GapSteps == {TABLE_GAP_THRESHOLD, TABLE_GAP_THRESHOLD + 1}

GapRow(r, y, wide) ==
    IF wide
    THEN <<TextItem("Pizza " \o ToString(r), 20, y + 2), TextItem(ToString(100 * r), 150, y)>>
    ELSE <<TextItem("Pizza " \o ToString(r), 20, y)>>

RECURSIVE GapItems(_, _, _, _)
GapItems(steps, wides, r, y) ==
    IF r > Len(wides) THEN <<>>
    ELSE GapRow(r, y, wides[r])
            \o (IF r < Len(wides)
                THEN GapItems(steps, wides, r + 1, y + steps[r]) ELSE <<>>)

GapInputs ==
    UNION {{GapItems(steps, wides, 1, 100) :
                steps \in [1..(n - 1) -> GapSteps], wides \in [1..n -> BOOLEAN]} :
              n \in 2..MaxGapRows}

Init ==
    /\ items \in ScenarioInputs \cup ListInputs \cup TableInputs \cup GapInputs
    /\ call = "none"
    /\ arg = <<>>
    /\ ret = <<>>
    /\ ui = <<>>

----------------------------------------------------------------------------
(* Operations of the grid reconstruction *)

RECURSIVE Flatten(_)
Flatten(rows) == IF rows = <<>> THEN <<>> ELSE Head(rows) \o Flatten(Tail(rows))

GroupIntoRows ==
    /\ call = "none"
    /\ call' = "groupIntoRows"
    /\ arg' = <<>>
    /\ ret' = groupIntoRows(items)
    /\ items' = afterSortOfCopy(items, sortByY(items))
    /\ UNCHANGED ui

GroupIntoRowsFirstY ==
    /\ call = "none"
    /\ call' = "groupIntoRowsFirstY"
    /\ arg' = <<>>
    /\ ret' = groupIntoRowsFirstY(items)
    /\ items' = afterSortOfCopy(items, sortByY(items))
    /\ UNCHANGED ui

\* groupIntoRows run again on its own output, flattened
Regroup ==
    /\ call = "groupIntoRows"
    /\ call' = "regroup"
    /\ arg' = [grouped |-> ret, flattened |-> Flatten(ret)]
    /\ ret' = groupIntoRows(Flatten(ret))
    /\ UNCHANGED items
    /\ UNCHANGED ui

\* rowsToTable passes findTypicalColumnCount(rows); the other row lengths and
\* 0 are what the function makes of a count that is not the typical one
TypicalColsArgs(rows) ==
    {0, findTypicalColumnCount(rows)} \cup {Len(rows[r]) : r \in 1..Len(rows)}

DetectColumnBoundaries ==
    /\ call = "none"
    /\ LET rows == groupIntoRows(items)
       IN  \E typicalCols \in TypicalColsArgs(rows) :
              /\ call' = "detectColumnBoundaries"
              /\ arg' = [rows |-> rows, typicalCols |-> typicalCols]
              /\ ret' = detectColumnBoundaries(rows, typicalCols)
    /\ UNCHANGED items
    /\ UNCHANGED ui

\* rows.map(row => mapRowToColumns(row, columnBoundaries)) of rowsToTable
MapRowToColumns ==
    /\ call = "none"
    /\ LET rows == groupIntoRows(items)
       IN  \E typicalCols \in TypicalColsArgs(rows) :
              LET columnBoundaries == detectColumnBoundaries(rows, typicalCols)
              IN  /\ call' = "mapRowToColumns"
                  /\ arg' = [rows |-> rows, columnBoundaries |-> columnBoundaries]
                  /\ ret' = mapRows(rows, columnBoundaries)
    /\ UNCHANGED items
    /\ UNCHANGED ui

\* rowsToTable on the rows of the list as one segment; when it gets as far as
\* mapping the rows, arg also holds its mappedRows and headerRowIndex
RowsToTable ==
    /\ call = "none"
    /\ LET rows == groupIntoRows(items)
       IN  \E tableIndex \in {0, 1} :
              LET table == rowsToTable(rows, tableIndex)
                  typicalCols == findTypicalColumnCount(rows)
                  columnBoundaries == detectColumnBoundaries(rows, typicalCols)
                  mappedRows == mapRows(rows, columnBoundaries)
              IN  /\ call' = "rowsToTable"
                  /\ arg' = IF \/ Len(rows) < MIN_TABLE_ROWS
                               \/ typicalCols < MIN_COLUMNS
                               \/ Len(columnBoundaries) < MIN_COLUMNS
                            THEN [rows |-> rows, tableIndex |-> tableIndex]
                            ELSE [rows |-> rows, tableIndex |-> tableIndex,
                                  typicalCols |-> typicalCols,
                                  columnBoundaries |-> columnBoundaries,
                                  mappedRows |-> mappedRows,
                                  headerRowIndex |-> findHeaderRowIndex(mappedRows)]
                  /\ ret' = table
    /\ UNCHANGED items
    /\ UNCHANGED ui

SplitIntoTables ==
    /\ call = "none"
    /\ call' = "splitIntoTables"
    /\ arg' = [rows |-> groupIntoRows(items)]
    /\ ret' = splitIntoTables(arg'.rows)
    /\ UNCHANGED items
    /\ UNCHANGED ui

DetectTables ==
    /\ call = "none"
    /\ call' = "detectTables"
    /\ arg' = <<>>
    /\ ret' = detectTables(items)
    /\ items' = afterSortOfCopy(items, sortByY(items))
    /\ UNCHANGED ui

Next ==
    \/ DetectTables
    \/ RowsToTable
    \/ SplitIntoTables
    \/ MapRowToColumns
    \/ DetectColumnBoundaries
    \/ GroupIntoRows
    \/ GroupIntoRowsFirstY
    \/ Regroup
    \/ Return

Spec == Init /\ [][Next]_vars

\* Sets of fragments that make a table, each listed in every order: the
\* scenario with its rows 25 apart; a label in two fragments at one X, one
\* under the other or both at the same place; a cell of two fragments side
\* by side.
OrderFragmentSets ==
    {ScenarioFragments(100 + TABLE_GAP_THRESHOLD),
     {TextItem("Calories", 150, 100), TextItem("Cheese", 20, 125),
      TextItem("Pizza", 20, 126), TextItem("290", 150, 125)},
     {TextItem("Calories", 150, 100), TextItem("Cheese", 20, 125),
      TextItem("Pizza", 20, 125), TextItem("290", 150, 125)},
     {TextItem("Item", 20, 100), TextItem("Calories", 150, 100),
      TextItem("Cheese Pizza", 20, 110), TextItem("290", 150, 110),
      TextItem("%", 155, 110)}}

InitOrder ==
    /\ items \in UNION {PermutationsOf(S) : S \in OrderFragmentSets}
    /\ call = "none"
    /\ arg = <<>>
    /\ ret = <<>>
    /\ ui = <<>>

\* the list with the fragments at i and j in each other's place
Swap(its, i, j) ==
    [k \in 1..Len(its) |-> IF k = i THEN its[j] ELSE IF k = j THEN its[i] ELSE its[k]]

\* detectTables on the same fragments in another order
DetectTablesReordered ==
    /\ call = "none"
    /\ \E i, j \in 1..Len(items) :
          /\ i < j
          /\ call' = "detectTablesReordered"
          /\ arg' = [permuted |-> Swap(items, i, j)]
          /\ ret' = detectTables(arg'.permuted)
    /\ UNCHANGED items
    /\ UNCHANGED ui

NextOrder == DetectTables \/ DetectTablesReordered \/ Return

SpecOrder == InitOrder /\ [][NextOrder]_vars

\* Every exported operation in turn on one list: header, section marker, row
\* label and values, the row 25 below the header and listed in any order.
FramePool ==
    {TextItem("Calories", 150, 100), TextItem("Toppings", 20, 110),
     TextItem("Cheese Pizza", 20, 125), TextItem("290", 150, 125),
     TextItem("12g", 140, 125)}

InitFrame ==
    /\ items \in SeqsUpTo(FramePool, MaxFrameItems)
    /\ call = "none"
    /\ arg = <<>>
    /\ ret = <<>>
    /\ ui = <<>>

NextFrame ==
    \/ DetectTables
    \/ GroupIntoRows
    \/ FindHeaders
    \/ FindRowItems
    \/ FindCellValue
    \/ GetAllRowValues
    \/ Return

SpecFrame == InitFrame /\ [][NextFrame]_vars

----------------------------------------------------------------------------
(* Parsing a PDF from a URL *)

MAX_PDF_SIZE == 10 * 1024 * 1024

\* a thrown ParseError
ParseError(type, message) == [type |-> type, message |-> message]

\* the position of the colon ending the scheme of url, or 0: new URL(url)
\* throws when url has no scheme, or has an http(s) scheme and no host
schemeEnd(url) ==
    LET colons == {i \in 2..Len(url) :
                      /\ CharAt(url, i) = ":"
                      /\ \A k \in 1..(i - 1) :
                            LowerChar(CharAt(url, k)) \in DOMAIN LowerToUpper}
    IN IF colons = {} THEN 0 ELSE CHOOSE i \in colons : \A k \in colons : i <= k

RECURSIVE afterSlashes(_)
afterSlashes(s) ==
    IF s # "" /\ CharAt(s, 1) = "/" THEN afterSlashes(Rest(s)) ELSE s

\* parsedUrl.protocol of new URL(url), NULL when the constructor throws
protocolOf(url) ==
    LET e == schemeEnd(url)
        protocol == toLowerCase(SubSeq(url, 1, e))
    IN IF e = 0 THEN NULL
       ELSE IF protocol \in {"http:", "https:"}
                /\ afterSlashes(SubSeq(url, e + 1, Len(url))) = ""
            THEN NULL
            ELSE Some(protocol)

\* the zero-tables test dropped: a result is returned whatever tables holds
resultOfTablesAnyCount(url, tables, now) ==
    [sourceUrl |-> url, tables |-> tables, parsedAt |-> now]

\* the end of parsePdfFromUrl: the NO_TABLES error or the ParseResult
resultOfTables(url, tables, now) ==
    IF Len(tables) = 0
    THEN [thrown |-> ParseError("NO_TABLES", "No tables found in this PDF.")]
    ELSE [sourceUrl |-> url, tables |-> tables, parsedAt |-> now]

\* response.ok
responseOk(status) == status >= 200 /\ status <= 299

\* parsePdfFromUrl(url) in an environment env: what fetch does (throws, or
\* the response's status, content-type, content-length as parseInt reads it,
\* and the body: reading it throws, or it has byteLength bytes), whether the
\* text extraction throws, the fragments textItems it yields otherwise, and
\* the clock.  An error of reading the body is not caught and is thrown as
\* it is.
parsePdfFromUrl(url, env, textItems) ==
    LET protocol == protocolOf(url) IN
    IF protocol = NULL
    THEN [thrown |-> ParseError("INVALID_URL", "Please enter a valid PDF URL")]
    ELSE IF protocol[1] \notin {"http:", "https:"}
    THEN [thrown |-> ParseError("INVALID_URL", "URL must use http or https protocol")]
    ELSE IF env.fetchThrows
    THEN [thrown |-> ParseError("FETCH_FAILED",
                        "Couldn't access this PDF. Make sure the URL is public.")]
    ELSE IF ~responseOk(env.status)
    THEN [thrown |-> ParseError("FETCH_FAILED",
                        "Couldn't access this PDF. Server returned "
                            \o ToString(env.status) \o ".")]
    ELSE IF /\ env.contentType # NULL
            /\ env.contentType[1] # ""
            /\ ~includes(env.contentType[1], "pdf")
            /\ ~includes(env.contentType[1], "octet-stream")
    THEN [thrown |-> ParseError("NOT_A_PDF", "This doesn't appear to be a PDF file.")]
    ELSE IF env.contentLength # NULL /\ env.contentLength[1] > MAX_PDF_SIZE
    THEN [thrown |-> ParseError("TOO_LARGE",
                        "This PDF is too large. Maximum size is 10MB.")]
    ELSE IF env.bodyThrows
    THEN [thrown |-> [name |-> "TypeError", message |-> "terminated"]]
    ELSE IF env.byteLength > MAX_PDF_SIZE
    THEN [thrown |-> ParseError("TOO_LARGE",
                        "This PDF is too large. Maximum size is 10MB.")]
    ELSE IF env.extractThrows
    THEN [thrown |-> ParseError("PARSE_FAILED",
                        "Couldn't read tables from this PDF. Try a different file.")]
    ELSE resultOfTables(url, detectTables(textItems), env.now)

Urls ==
    {"https://deyes.app/menu.pdf", "HTTP://deyes.app/menu.pdf",
     "ftp://deyes.app/menu.pdf", "menu.pdf", "https://"}

Environments ==
    [fetchThrows : BOOLEAN,
     status : {200, 404},
     contentType : {NULL, Some("application/pdf"), Some("text/html")},
     contentLength : {NULL, Some(MAX_PDF_SIZE), Some(MAX_PDF_SIZE + 1)},
     bodyThrows : BOOLEAN,
     byteLength : {MAX_PDF_SIZE, MAX_PDF_SIZE + 1},
     extractThrows : BOOLEAN,
     now : {"2026-01-01T00:00:00.000Z"}]

\* what the text extraction yields: the scenario with its data row within or
\* beyond the table gap, and a document without text
InitParse ==
    /\ items \in ScenarioInputs \cup {<<>>}
    /\ call = "none"
    /\ arg = <<>>
    /\ ret = <<>>
    /\ ui = <<>>

ParsePdfFromUrl ==
    /\ call = "none"
    /\ \E url \in Urls, env \in Environments :
          /\ call' = "parsePdfFromUrl"
          /\ arg' = [url |-> url, env |-> env]
          /\ ret' = parsePdfFromUrl(url, env, items)
    /\ UNCHANGED items
    /\ UNCHANGED ui

NextParse == ParsePdfFromUrl \/ Return

SpecParse == InitParse /\ [][NextParse]_vars

----------------------------------------------------------------------------
(* The POST /api/parse handler *)

\* What request.json() meets: a body that is not JSON, the JSON null, a
\* JSON number, and objects without url or with a url that is a number, an
\* empty string or a string.
RequestBodies ==
    {[kind |-> "invalid"], [kind |-> "null"], [kind |-> "number"],
     [kind |-> "object", url |-> NULL],
     [kind |-> "object", url |-> Some([type |-> "number"])]}
        \cup {[kind |-> "object", url |-> Some([type |-> "string", value |-> u])] :
                 u \in Urls \cup {""}}

\* const { url } = body: undefined unless body is an object that has it
urlOfBody(body) == IF body.kind = "object" THEN body.url ELSE NULL

\* the handler gets to the call of parsePdfFromUrl: the body is read and
\* destructured without an error and !url || typeof url !== "string" is false
parserCalled(body) ==
    /\ body.kind \notin {"invalid", "null"}
    /\ urlOfBody(body) # NULL
    /\ urlOfBody(body)[1].type = "string"
    /\ urlOfBody(body)[1].value # ""

\* the status of a ParseError, with every type but the first answered 422
statusCodeInvalidUrlOnly(type) == IF type = "INVALID_URL" THEN 400 ELSE 422

\* the status of a ParseError
statusCode(type) ==
    IF type = "INVALID_URL" \/ type = "NOT_A_PDF" THEN 400
    ELSE IF type = "FETCH_FAILED" THEN 502
    ELSE IF type = "TOO_LARGE" THEN 413
    ELSE 422

JsonResponse(body, status) == [status |-> status, json |-> body]

\* the catch block, for the value thrown
caught(error) ==
    IF "type" \in DOMAIN error /\ "message" \in DOMAIN error
    THEN JsonResponse([success |-> FALSE, error |-> error], statusCode(error.type))
    ELSE JsonResponse(
            [success |-> FALSE,
             error |-> ParseError("PARSE_FAILED",
                          "An unexpected error occurred while parsing the PDF.")],
            500)

\* POST(request): request.json() throws a SyntaxError on a body that is not
\* JSON, and the destructuring of null throws a TypeError
POST(body, env, textItems) ==
    IF body.kind = "invalid"
    THEN caught([name |-> "SyntaxError", message |-> "Unexpected token"])
    ELSE IF body.kind = "null"
    THEN caught([name |-> "TypeError", message |-> "Cannot destructure"])
    ELSE IF ~parserCalled(body)
    THEN JsonResponse(
            [success |-> FALSE,
             error |-> ParseError("INVALID_URL", "Please provide a PDF URL")],
            400)
    ELSE LET result == parsePdfFromUrl(urlOfBody(body)[1].value, env, textItems)
         IN  IF "thrown" \in DOMAIN result THEN caught(result.thrown)
             ELSE JsonResponse([success |-> TRUE, data |-> result], 200)

Post ==
    /\ call = "none"
    /\ \E body \in RequestBodies, env \in Environments :
          /\ call' = "POST"
          /\ arg' = [body |-> body, env |-> env,
                     parserCalled |-> parserCalled(body)]
          /\ ret' = POST(body, env, items)
    /\ UNCHANGED items
    /\ UNCHANGED ui

NextRoute == Post \/ Return

SpecRoute == InitParse /\ [][NextRoute]_vars

----------------------------------------------------------------------------
(* Mapping the rows of a table with fragments between and beyond its columns *)

\* Two or three columns, set by a header row and a first data row; a last
\* row holds any of a label, a fragment halfway between the first two
\* columns, one just left of halfway, a value, and a fragment far to the
\* right of every column.
MapHeaderRows ==
    {<<TextItem("Item", 20, 100), TextItem("Calories", 150, 100)>>,
     <<TextItem("Item", 20, 100), TextItem("Calories", 150, 100),
       TextItem("Fat", 250, 100)>>}

MapFirstRow(header) ==
    IF Len(header) = 2
    THEN <<TextItem("Cheese Pizza", 20, 110), TextItem("290", 150, 110)>>
    ELSE <<TextItem("Cheese Pizza", 20, 110), TextItem("290", 150, 110),
           TextItem("12g", 250, 110)>>

MapLastRowPool ==
    <<TextItem("Thin", 20, 120), TextItem("Crust", 84, 120),
      TextItem("Pizza", 85, 120), TextItem("310", 150, 120),
      TextItem("kcal", 900, 120)>>

RECURSIVE Pick(_, _)
Pick(pool, chosen) ==
    IF Len(pool) = 0 THEN <<>>
    ELSE (IF Len(pool) \in chosen THEN Pick(SubSeq(pool, 1, Len(pool) - 1), chosen)
                                       \o <<pool[Len(pool)]>>
          ELSE Pick(SubSeq(pool, 1, Len(pool) - 1), chosen))

MapInputs ==
    {header \o MapFirstRow(header) \o Pick(MapLastRowPool, chosen) :
        header \in MapHeaderRows, chosen \in SUBSET (1..Len(MapLastRowPool))}

InitMap ==
    /\ items \in MapInputs
    /\ call = "none"
    /\ arg = <<>>
    /\ ret = <<>>
    /\ ui = <<>>

NextMap == MapRowToColumns \/ Return

SpecMap == InitMap /\ [][NextMap]_vars

----------------------------------------------------------------------------
(* Finding the header row of mapped rows *)

MaxMappedRows == 6

\* Rows of a label and two cells: both cells text; one a number and one
\* text; both numbers, written with a comma and a percent sign; both empty
\* or blank; a percent sign alone and a blank.
MappedRowKinds ==
    {<<"Item", "Calories", "Fat">>,
     <<"Cheese Pizza", "290", "12g">>,
     <<"Thin Crust", "1,200", "5 %">>,
     <<"Totals", "", " ">>,
     <<"Daily Value", "%", "">>}

InitHeaderRow ==
    /\ items = <<>>
    /\ call = "none"
    /\ arg = <<>>
    /\ ret = <<>>
    /\ ui = <<>>

FindHeaderRowIndex ==
    /\ call = "none"
    /\ \E mappedRows \in SeqsUpTo(MappedRowKinds, MaxMappedRows) :
          /\ call' = "findHeaderRowIndex"
          /\ arg' = [mappedRows |-> mappedRows]
          /\ ret' = findHeaderRowIndex(mappedRows)
    /\ UNCHANGED items
    /\ UNCHANGED ui

NextHeaderRow == FindHeaderRowIndex \/ Return

SpecHeaderRow == InitHeaderRow /\ [][NextHeaderRow]_vars

----------------------------------------------------------------------------
(* The data rows of a table of mapped rows *)

MaxDataRows == 3

DataHeaderRow == <<"Item", "Calories", "Fat", "Carbs">>

\* Rows of a label and three cells.  The first cell a number; the first cell
\* text and none, one or two numbers after the label; no cell filled; a
\* label that is a number, with a number or with text next to it; a label of
\* one character.
DataRowKinds ==
    {<<"Cheese Pizza", "290", "12g", "30">>,
     <<"Toppings", "extra", "", "">>,
     <<"Sauce", "mild", "5", "">>,
     <<"Crust", "thin", "5", "7">>,
     <<"Plain", "", "", "">>,
     <<"12", "290", "", "">>,
     <<"42", "low", "", "">>,
     <<"x", "290", "12", "3">>}

InitDataRows ==
    /\ items = <<>>
    /\ call = "none"
    /\ arg = <<>>
    /\ ret = <<>>
    /\ ui = <<>>

\* rowsToTable from the mapped rows on: the header row, then the data rows
ProcessDataRows ==
    /\ call = "none"
    /\ \E dataRows \in SeqsUpTo(DataRowKinds, MaxDataRows), tableIndex \in {0, 1} :
          /\ call' = "processDataRows"
          /\ arg' = [mappedRows |-> <<DataHeaderRow>> \o dataRows,
                     tableIndex |-> tableIndex]
          /\ ret' = tableOfMappedRows(arg'.mappedRows, tableIndex)
    /\ UNCHANGED items
    /\ UNCHANGED ui

NextDataRows == ProcessDataRows \/ Return

SpecDataRows == InitDataRows /\ [][NextDataRows]_vars

----------------------------------------------------------------------------
(* Tables whose header texts read like the placeholder of a column *)

\* the X of the label column and of columns 1 and 2
PlaceholderColumnXs == <<20, 150, 250>>

\* the header texts of column 1 and of column 2: a name, the placeholder of
\* the column itself (also with a space after it), the placeholder of a
\* column the table does not have
PlaceholderHeaderTexts ==
    <<{"Calories", "Column 1", "Column 1 ", "Column 3"},
      {"Fat", "Column 2", "Column 4"}>>

PlaceholderRow(label, first, second, y) ==
    <<TextItem(label, PlaceholderColumnXs[1], y),
      TextItem(first, PlaceholderColumnXs[2], y),
      TextItem(second, PlaceholderColumnXs[3], y)>>

PlaceholderInputs ==
    LET Headers == {PlaceholderRow("Item", h1, h2, 100) :
                        h1 \in PlaceholderHeaderTexts[1],
                        h2 \in PlaceholderHeaderTexts[2]}
        First == {PlaceholderRow("Cheese Pizza", v1, v2, 110) :
                        v1 \in {"290", "310"}, v2 \in {"12", "14"}}
        Second == {<<>>} \cup
                  {PlaceholderRow("Thin Crust", v1, v2, 120) :
                        v1 \in {"290", "310"}, v2 \in {"12", "14"}}
    IN  {h \o f \o s : h \in Headers, f \in First, s \in Second}

InitPlaceholder ==
    /\ items \in PlaceholderInputs
    /\ call = "none"
    /\ arg = <<>>
    /\ ret = <<>>
    /\ ui = <<>>

NextPlaceholder == DetectTables \/ Return

SpecPlaceholder == InitPlaceholder /\ [][NextPlaceholder]_vars

----------------------------------------------------------------------------
(* The typical column count of rows of several lengths *)

MaxTypicalRows == 4

\* row r, at y = 100 + 10 r, with n fragments
TypicalRow(r, n) ==
    [k \in 1..n |-> TextItem("a", 100 * k - 80, 100 + 10 * r)]

RECURSIVE TypicalItems(_, _)
TypicalItems(lengths, r) ==
    IF r > Len(lengths) THEN <<>>
    ELSE TypicalRow(r, lengths[r]) \o TypicalItems(lengths, r + 1)

InitTypical ==
    /\ items \in {TypicalItems(lengths, 1) :
                      lengths \in SeqsUpTo(1..3, MaxTypicalRows)}
    /\ call = "none"
    /\ arg = <<>>
    /\ ret = <<>>
    /\ ui = <<>>

FindTypicalColumnCount ==
    /\ call = "none"
    /\ call' = "findTypicalColumnCount"
    /\ arg' = [rows |-> groupIntoRows(items)]
    /\ ret' = findTypicalColumnCount(arg'.rows)
    /\ items' = afterSortOfCopy(items, sortByY(items))
    /\ UNCHANGED ui

NextTypical == FindTypicalColumnCount \/ Return

SpecTypical == InitTypical /\ [][NextTypical]_vars

----------------------------------------------------------------------------
(* Splitting longer lists of rows *)

MaxSplitRows == 5

\* Rows of one fragment or of two, each 10, TABLE_GAP_THRESHOLD or one more
\* than TABLE_GAP_THRESHOLD below the row before.
SplitInputs ==
    {<<>>} \cup
    UNION {{GapItems(steps, wides, 1, 100) :
                steps \in [1..(n - 1) -> GapSteps \cup {10}],
                wides \in {[r \in 1..n |-> FALSE], [r \in 1..n |-> TRUE]}} :
              n \in 1..MaxSplitRows}

InitSplit ==
    /\ items \in SplitInputs
    /\ call = "none"
    /\ arg = <<>>
    /\ ret = <<>>
    /\ ui = <<>>

NextSplit == SplitIntoTables \/ Return

SpecSplit == InitSplit /\ [][NextSplit]_vars

----------------------------------------------------------------------------
(* CalibrationView: choosing a header row and a label column *)

MaxRawRows == 3

\* a raw row of n cells
RawRow(n, y) == [cells |-> [c \in 1..n |-> "cell " \o ToString(c)], y |-> y]

RawRowLists ==
    {[r \in 1..Len(lengths) |-> RawRow(lengths[r], 100 + 10 * r)] :
        lengths \in SeqsUpTo(1..3, MaxRawRows)}

\* the state of the component after mounting; closed is "completed" after
\* onComplete and "cancelled" after onCancel
InitCalibration ==
    /\ items = <<>>
    /\ call = "none"
    /\ arg = <<>>
    /\ ret = <<>>
    /\ \E rawRows \in RawRowLists :
          ui = [rawRows |-> rawRows, step |-> "header", headerRowIndex |-> NULL,
                labelColumnIndex |-> NULL, closed |-> "no"]

\* rawRows.slice(0, 20), as the indices (from 0) of its rows
displayRows(rawRows) == 0..((IF Len(rawRows) < 20 THEN Len(rawRows) ELSE 20) - 1)

\* the cells of the selected header row that are rendered as buttons:
\* rawRows[headerRowIndex!]?.cells.map(...)
labelButtons(rawRows, headerRowIndex) ==
    IF headerRowIndex = NULL \/ headerRowIndex[1] >= Len(rawRows) THEN {}
    ELSE 0..(Len(rawRows[headerRowIndex[1] + 1].cells) - 1)

\* a tap on one of the rows shown in step "header"
handleHeaderSelect ==
    /\ ui.closed = "no"
    /\ ui.step = "header"
    /\ \E index \in displayRows(ui.rawRows) :
          ui' = [ui EXCEPT !.headerRowIndex = Some(index), !.step = "label"]
    /\ UNCHANGED <<items, call, arg, ret>>

\* a tap on one of the cells of the header row shown in step "label"
handleLabelSelect ==
    /\ ui.closed = "no"
    /\ ui.step = "label"
    /\ \E index \in labelButtons(ui.rawRows, ui.headerRowIndex) :
          ui' = [ui EXCEPT !.labelColumnIndex = Some(index)]
    /\ UNCHANGED <<items, call, arg, ret>>

\* the Back button, rendered in step "label"
handleBack ==
    /\ ui.closed = "no"
    /\ ui.step = "label"
    /\ ui' = [ui EXCEPT !.step = "header"]
    /\ UNCHANGED <<items, call, arg, ret>>

\* the Confirm button is rendered
confirmEnabled == ui.step = "label" /\ ui.labelColumnIndex # NULL

\* the Confirm button: the table is built from the two indices by
\* buildTableFromCalibration, which returns a table or null, and onComplete
\* is called with a table
handleConfirm ==
    /\ ui.closed = "no"
    /\ confirmEnabled
    /\ ui.headerRowIndex # NULL /\ ui.labelColumnIndex # NULL
    /\ \E built \in BOOLEAN :
          ui' = [ui EXCEPT !.closed = IF built THEN "completed" ELSE "no"]
    /\ UNCHANGED <<items, call, arg, ret>>

\* the Cancel button
handleCancel ==
    /\ ui.closed = "no"
    /\ ui' = [ui EXCEPT !.closed = "cancelled"]
    /\ UNCHANGED <<items, call, arg, ret>>

NextCalibration ==
    \/ handleHeaderSelect
    \/ handleLabelSelect
    \/ handleBack
    \/ handleConfirm
    \/ handleCancel

SpecCalibration == InitCalibration /\ [][NextCalibration]_vars

----------------------------------------------------------------------------
(* HomeContent: the URL flow *)

\* What the user types into the input
TypedUrls ==
    {"", " ", " https://deyes.app/menu.pdf ", "https://deyes.app/drinks.pdf",
     "menu.pdf"}

\* The documents behind the URL: one with a table of two rows, one with
\* that table and a second one further down, one without text
HomeFirstTable ==
    <<TextItem("Calories", 150, 100), TextItem("Cheese Pizza", 20, 110),
      TextItem("290", 150, 110), TextItem("Thin Crust", 20, 120),
      TextItem("310", 150, 120)>>

HomeSecondTable ==
    <<TextItem("Fat", 150, 200), TextItem("Cheese Pizza", 20, 210),
      TextItem("12", 150, 210)>>

HomeDocuments == {HomeFirstTable, HomeFirstTable \o HomeSecondTable, <<>>}

\* The server's environment: the PDF is served, or the host answers 404
HomeEnvironments ==
    {[fetchThrows |-> FALSE, status |-> s, contentType |-> Some("application/pdf"),
      contentLength |-> NULL, bodyThrows |-> FALSE, byteLength |-> MAX_PDF_SIZE,
      extractThrows |-> FALSE, now |-> "2026-01-01T00:00:00.000Z"] : s \in {200, 404}}

\* the state after mounting; pending is the request of handleSubmit that
\* has not settled yet
InitHome ==
    /\ items = <<>>
    /\ call = "none"
    /\ arg = <<>>
    /\ ret = <<>>
    /\ \E initialStarted \in BOOLEAN :
          ui = [isStarted |-> initialStarted, url |-> "", error |-> NULL,
                view |-> "input", parseResult |-> NULL, selectedTableIndex |-> 0,
                selectedRow |-> NULL, selectedColumn |-> NULL, pending |-> NULL]

handleStart ==
    /\ ui.view = "input"
    /\ ~ui.isStarted
    /\ ui' = [ui EXCEPT !.isStarted = TRUE]
    /\ UNCHANGED <<items, call, arg, ret>>

\* onChange of the input
setUrl ==
    /\ ui.view = "input"
    /\ \E typed \in TypedUrls : ui' = [ui EXCEPT !.url = typed]
    /\ UNCHANGED <<items, call, arg, ret>>

\* handleSubmit up to its first await: nothing on a blank url, else the
\* error is cleared, the view is "loading" and the request is sent
handleSubmit ==
    /\ ui.view = "input"
    /\ ui' = IF trim(ui.url) = "" THEN ui
             ELSE [ui EXCEPT !.error = NULL, !.view = "loading",
                             !.pending = Some(trim(ui.url))]
    /\ UNCHANGED <<items, call, arg, ret>>

\* the rest of handleSubmit with the view never taken out of "loading"
afterResponseStaysLoading(state, data) == [state EXCEPT !.pending = NULL]

\* the rest of handleSubmit for a response that was read as JSON
afterResponse(state, data) ==
    IF ~data.success
    THEN [state EXCEPT !.error = Some(data.error.message), !.view = "input",
                       !.pending = NULL]
    ELSE [state EXCEPT !.parseResult = Some(data.data),
                       !.selectedTableIndex = 0,
                       !.view = IF Len(data.data.tables) > 1
                                THEN "select-table" ELSE "query",
                       !.pending = NULL]

\* the catch block of handleSubmit
afterFailure(state) ==
    [state EXCEPT !.error = Some("Failed to connect. Please try again."),
                  !.view = "input", !.pending = NULL]

\* the request settles: fetch rejects, or the response is not JSON, or it is
\* the answer of the POST handler for some document and environment
settleSubmit ==
    /\ ui.pending # NULL
    /\ \/ ui' = afterFailure(ui)
       \/ \E doc \in HomeDocuments, env \in HomeEnvironments :
             ui' = afterResponse(ui,
                     POST([kind |-> "object",
                           url |-> Some([type |-> "string", value |-> ui.pending[1]])],
                          env, doc).json)
    /\ UNCHANGED <<items, call, arg, ret>>

\* the first table whatever the selection is
firstTable(state) ==
    IF state.parseResult = NULL \/ Len(state.parseResult[1].tables) = 0
    THEN NULL
    ELSE Some(state.parseResult[1].tables[1])

\* parseResult?.tables[selectedTableIndex]
currentTable(state) ==
    IF state.parseResult = NULL
          \/ state.selectedTableIndex >= Len(state.parseResult[1].tables)
    THEN NULL
    ELSE Some(state.parseResult[1].tables[state.selectedTableIndex + 1])

\* "Try a different PDF" of TableSelector and the back button of QueryForm
handleReset ==
    /\ \/ ui.view = "select-table" /\ ui.parseResult # NULL
       \/ ui.view = "query" /\ currentTable(ui) # NULL
    /\ ui' = [ui EXCEPT !.url = "", !.error = NULL, !.view = "input",
                        !.parseResult = NULL, !.selectedTableIndex = 0,
                        !.selectedRow = NULL, !.selectedColumn = NULL]
    /\ UNCHANGED <<items, call, arg, ret>>

\* a tap on one of the tables TableSelector lists
handleTableSelect ==
    /\ ui.view = "select-table"
    /\ ui.parseResult # NULL
    /\ \E index \in 0..(Len(ui.parseResult[1].tables) - 1) :
          ui' = [ui EXCEPT !.selectedTableIndex = index, !.view = "query"]
    /\ UNCHANGED <<items, call, arg, ret>>

\* table.rows.find(r => r.id === rowId)
findRow(table, id) ==
    LET found == {k \in 1..Len(table.rows) : table.rows[k].id = id}
    IN  IF found = {} THEN NULL
        ELSE Some(table.rows[CHOOSE k \in found : \A j \in found : k <= j])

\* QueryForm submits the id of one of the rows it lists and one of the
\* headers of the table
handleQuery ==
    /\ ui.view = "query"
    /\ currentTable(ui) # NULL
    /\ \E r \in 1..Len(currentTable(ui)[1].rows),
          column \in Range(currentTable(ui)[1].headers) :
          LET row == findRow(currentTable(ui)[1], currentTable(ui)[1].rows[r].id)
          IN  ui' = IF row = NULL THEN ui
                    ELSE [ui EXCEPT !.selectedRow = row,
                                    !.selectedColumn = Some(column),
                                    !.view = "result"]
    /\ UNCHANGED <<items, call, arg, ret>>

handleNewQuery ==
    /\ \/ ui.view = "result" /\ ui.selectedRow # NULL /\ ui.selectedColumn # NULL
       \/ ui.view = "details" /\ ui.selectedRow # NULL /\ currentTable(ui) # NULL
    /\ ui' = [ui EXCEPT !.selectedRow = NULL, !.selectedColumn = NULL,
                        !.view = "query"]
    /\ UNCHANGED <<items, call, arg, ret>>

\* onViewDetails of ResultDisplay
viewDetails ==
    /\ ui.view = "result" /\ ui.selectedRow # NULL /\ ui.selectedColumn # NULL
    /\ ui' = [ui EXCEPT !.view = "details"]
    /\ UNCHANGED <<items, call, arg, ret>>

\* onBack of RowDetails
detailsBack ==
    /\ ui.view = "details" /\ ui.selectedRow # NULL /\ currentTable(ui) # NULL
    /\ ui' = [ui EXCEPT !.view = "result"]
    /\ UNCHANGED <<items, call, arg, ret>>

NextHome ==
    \/ handleStart
    \/ setUrl
    \/ handleSubmit
    \/ settleSubmit
    \/ handleReset
    \/ handleTableSelect
    \/ handleQuery
    \/ handleNewQuery
    \/ viewDetails
    \/ detailsBack

SpecHome == InitHome /\ [][NextHome]_vars

\* the request of a submission settles
SpecHomeSettling == SpecHome /\ WF_vars(settleSubmit)

----------------------------------------------------------------------------
(* Properties of the cell lookup (SpecLookup) *)

\* the indices of items that qualify for the lookup recorded in arg
Qualifying ==
    {i \in 1..Len(items) :
        /\ Abs(items[i].x - arg.headerItem.x) < arg.xTolerance
        /\ Abs(items[i].y - arg.rowItem.y) < arg.yTolerance
        /\ trim(items[i].str) # ""}

DistanceOf(i) ==
    Abs(items[i].x - arg.headerItem.x) + Abs(items[i].y - arg.rowItem.y)

IsScenarioLookup ==
    /\ Range(items) = {TextItem("Calories", 150, 100),
                       TextItem("Cheese Pizza", 20, 130),
                       TextItem("290", 150, 130)}
    /\ arg.headerItem = TextItem("Calories", 150, 100)
    /\ arg.rowItem = TextItem("Cheese Pizza", 20, 130)
    /\ arg.xTolerance = DEFAULT_X_TOLERANCE
    /\ arg.yTolerance = DEFAULT_Y_TOLERANCE

\* C2: when some fragment qualifies, findCellValue returns the trimmed text of
\* a qualifying fragment whose Manhattan distance to (header.x, row.y) is
\* minimal among all qualifying fragments of the whole list; on the scenario
\* fragments with header "Calories" and row "Cheese Pizza" it returns "290".
C2_ReturnsNearestCandidate ==
    call = "findCellValue" =>
        /\ Qualifying # {} =>
              /\ ret # NULL
              /\ \E i \in Qualifying :
                    /\ ret[1] = trim(items[i].str)
                    /\ \A j \in Qualifying : DistanceOf(i) <= DistanceOf(j)
        /\ IsScenarioLookup => ret = Some("290")

\* a lookup whose nearest candidate comes later in the list than a farther one
C2_Witness ==
    /\ call = "findCellValue"
    /\ \E i, j \in Qualifying :
          /\ i < j
          /\ DistanceOf(j) < DistanceOf(i)
          /\ \A k \in Qualifying \ {j} : DistanceOf(j) < DistanceOf(k)
          /\ trim(items[i].str) # trim(items[j].str)
          /\ ret = Some(trim(items[j].str))

\* C3: findCellValue returns null exactly when no fragment with non-empty
\* trimmed text is strictly within xTolerance of header.x and strictly within
\* yTolerance of row.y (a distance equal to a tolerance does not qualify).
C3_NullIffNoCandidate ==
    call = "findCellValue" =>
        (ret = NULL <=>
            ~ \E i \in 1..Len(items) :
                /\ trim(items[i].str) # ""
                /\ Abs(items[i].x - arg.headerItem.x) < arg.xTolerance
                /\ Abs(items[i].y - arg.rowItem.y) < arg.yTolerance)

\* a lookup that finds nothing although a fragment lies exactly on a tolerance
C3_Witness ==
    /\ call = "findCellValue"
    /\ ret = NULL
    /\ \E i \in 1..Len(items) :
          /\ trim(items[i].str) # ""
          /\ Abs(items[i].x - arg.headerItem.x) = arg.xTolerance
          /\ Abs(items[i].y - arg.rowItem.y) < arg.yTolerance
    /\ \E i \in 1..Len(items) :
          /\ trim(items[i].str) # ""
          /\ Abs(items[i].x - arg.headerItem.x) < arg.xTolerance
          /\ Abs(items[i].y - arg.rowItem.y) = arg.yTolerance

\* C4: for the headers discovered by findHeaders, getAllRowValues maps
\* h.text to findCellValue(items, h.item, rowItem) when that lookup is not
\* null, has no key for h.text otherwise, and has no other key.
C4_OneLookupPerHeader ==
    call = "getAllRowValues" =>
        /\ \A n \in 1..Len(arg.headers) :
              LET h == arg.headers[n]
                  v == findCellValue(items, h.item, arg.rowItem,
                                     DEFAULT_X_TOLERANCE, DEFAULT_Y_TOLERANCE)
              IN  IF v # NULL
                  THEN h.text \in DOMAIN ret /\ ret[h.text] = v[1]
                  ELSE h.text \notin DOMAIN ret
        /\ DOMAIN ret \subseteq {arg.headers[n].text : n \in 1..Len(arg.headers)}

\* two discovered headers with different values for the row
C4_Witness ==
    /\ call = "getAllRowValues"
    /\ Len(arg.headers) = 2
    /\ Cardinality(DOMAIN ret) = 2
    /\ ret[arg.headers[1].text] # ret[arg.headers[2].text]

\* a discovered header with no value for the row, next to one with a value
C4_WitnessAbsent ==
    /\ call = "getAllRowValues"
    /\ Len(arg.headers) = 2
    /\ Cardinality(DOMAIN ret) = 1

----------------------------------------------------------------------------
(* Properties of header and row-label discovery (SpecKeyword) *)

\* the trimmed texts of items that hold a header keyword
KeywordTexts ==
    {trim(items[k].str) : k \in
        {k \in 1..Len(items) :
            /\ Len(trim(items[k].str)) >= 2
            /\ \E kw \in HEADER_KEYWORDS :
                  includes(toLowerCase(trim(items[k].str)), kw)}}

FirstWithText(text) ==
    items[CHOOSE k \in 1..Len(items) :
            /\ trim(items[k].str) = text
            /\ \A j \in 1..(k - 1) : trim(items[j].str) # text]

\* C5: findHeaders returns exactly one entry for each distinct trimmed text of
\* length >= 2 that holds a header keyword (case-insensitively) and no other
\* entry; the entry's fragment is the first fragment of the input with that
\* trimmed text; the entries are in ascending order of fragment X.
C5_HeadersUniqueFirstSorted ==
    call = "findHeaders" =>
        /\ {ret[i].text : i \in 1..Len(ret)} = KeywordTexts
        /\ \A i, j \in 1..Len(ret) : i # j => ret[i].text # ret[j].text
        /\ \A i \in 1..Len(ret) : ret[i].item = FirstWithText(ret[i].text)
        /\ \A i \in 1..(Len(ret) - 1) : ret[i].item.x <= ret[i + 1].item.x

\* a header text met twice at different places, and two headers returned in
\* the reverse of their input order
C5_Witness ==
    /\ call = "findHeaders"
    /\ Len(ret) = 2
    /\ ret[1].item.x < ret[2].item.x
    /\ \E k1, k2 \in 1..Len(items) :
          k2 < k1 /\ items[k1] = ret[1].item /\ items[k2] = ret[2].item
    /\ \E k \in 1..Len(items), i \in 1..Len(ret) :
          trim(items[k].str) = ret[i].text /\ items[k] # ret[i].item
    /\ \E k \in 1..Len(items) : trim(items[k].str) \notin KeywordTexts

\* the left band of the invocation recorded in arg, in ascending-Y order
Band == sortByY(leftItems(items, arg.headerY))

BandText(k) == trim(Band[k].str)

IsMarker(k) == isSection(BandText(k))

FirstInBand(k) == \A j \in 1..(k - 1) : BandText(j) # BandText(k)

\* the position in the band of the fragment a row candidate was made from
BandIndex(c) ==
    CHOOSE k \in 1..Len(Band) : BandText(k) = c.text /\ FirstInBand(k)

SectionAfter(markers) ==
    IF markers = {} THEN NULL
    ELSE Some(BandText(CHOOSE m \in markers : \A n \in markers : n <= m))

NoMarkerEmitted ==
    \A i \in 1..Len(ret) : ~ isSection(ret[i].text)

\* C6 as stated: no section marker is emitted as a row candidate, and every
\* row candidate carries the text of the nearest section marker before it in
\* ascending-Y order (no section when no marker precedes it).
C6_SectionOfNearestMarker ==
    call = "findRowItems" =>
        /\ NoMarkerEmitted
        /\ \A i \in 1..Len(ret) :
              ret[i].section =
                  SectionAfter({m \in 1..(BandIndex(ret[i]) - 1) : IsMarker(m)})

\* C6 as amended: no section marker is emitted as a row candidate, and every
\* row candidate carries the text of the nearest section marker before it in
\* ascending-Y order among the fragments that survive deduplication (the
\* first fragment of each trimmed text); a marker whose text was met before
\* is dropped as a duplicate and leaves the current section as it is.
C6_SectionOfNearestNewMarker ==
    call = "findRowItems" =>
        /\ NoMarkerEmitted
        /\ \A i \in 1..Len(ret) :
              ret[i].section =
                  SectionAfter({m \in 1..(BandIndex(ret[i]) - 1) :
                                    IsMarker(m) /\ FirstInBand(m)})

\* a row candidate after a repeated marker: it keeps the section of the
\* marker in between
C6_Witness ==
    /\ call = "findRowItems"
    /\ \E i \in 1..Len(ret) :
          \E m1, m2, m3 \in 1..Len(Band) :
              /\ m1 < m2 /\ m2 < m3 /\ m3 < BandIndex(ret[i])
              /\ IsMarker(m1) /\ IsMarker(m2) /\ IsMarker(m3)
              /\ BandText(m1) = BandText(m3)
              /\ BandText(m2) # BandText(m1)
              /\ ret[i].section = Some(BandText(m2))

----------------------------------------------------------------------------
(* Properties of the grid reconstruction (Spec) *)

IsScenario(rowY) == Range(items) = ScenarioFragments(rowY) /\ Len(items) = 3

\* the one table of the scenario, its ids aside
IsScenarioTable(tables) ==
    /\ Len(tables) = 1
    /\ tables[1].headers = <<"Calories">>
    /\ Len(tables[1].rows) = 1
    /\ tables[1].rows[1].label = "Cheese Pizza"
    /\ DOMAIN tables[1].rows[1].values = {"Calories"}
    /\ tables[1].rows[1].values["Calories"] = "290"

C1_WitnessScenario ==
    /\ call = "detectTables"
    /\ IsScenario(130)
    /\ ret = <<>>
    /\ ui = <<>>

IsGrouping == call \in {"groupIntoRows", "groupIntoRowsFirstY"}

\* C7 as stated: in every row of groupIntoRows each fragment's X is strictly
\* greater than its predecessor's.
C7_RowsStrictlyAscendingX ==
    IsGrouping =>
        \A r \in 1..Len(ret) :
            \A k \in 1..(Len(ret[r]) - 1) : ret[r][k].x < ret[r][k + 1].x

\* C7 as amended: in every row of groupIntoRows the fragments are in ascending
\* order of X, not strictly: fragments of one row at the same X stay side by
\* side, in their order of Y.
C7_RowsAscendingX ==
    IsGrouping =>
        \A r \in 1..Len(ret) :
            \A k \in 1..(Len(ret[r]) - 1) :
                /\ ret[r][k].x <= ret[r][k + 1].x
                /\ ret[r][k].x = ret[r][k + 1].x => ret[r][k].y <= ret[r][k + 1].y

\* a row that the input lists right to left, and a row with two fragments at
\* one X
C7_Witness ==
    /\ IsGrouping
    /\ \E r \in 1..Len(ret) : \E k \in 1..(Len(ret[r]) - 1) :
          /\ ret[r][k].x < ret[r][k + 1].x
          /\ \E i, j \in 1..Len(items) :
                i < j /\ items[i] = ret[r][k + 1] /\ items[j] = ret[r][k]
                      /\ items[i].y <= items[j].y
    /\ \E r \in 1..Len(ret) : \E k \in 1..(Len(ret[r]) - 1) :
          ret[r][k].x = ret[r][k + 1].x

\* C8: groupIntoRows run on the flattened result of groupIntoRows returns the
\* same sequence of rows.
C8_GroupingIdempotent ==
    call = "regroup" => ret = arg.grouped

\* a regrouping of several rows, one of them holding different fragments at
\* one X, from an input that was in neither Y nor X order
C8_Witness ==
    /\ call = "regroup"
    /\ Len(ret) >= 2
    /\ arg.flattened # items
    /\ \E r \in 1..Len(ret) : \E k \in 1..(Len(ret[r]) - 1) :
          ret[r][k].x = ret[r][k + 1].x /\ ret[r][k] # ret[r][k + 1]

UsedFallback ==
    \A r \in 1..Len(arg.rows) : Len(arg.rows[r]) # arg.typicalCols

\* C9 as stated: the anchors of detectColumnBoundaries are strictly ascending.
C9_AnchorsStrictlyAscending ==
    call = "detectColumnBoundaries" =>
        \A i \in 1..(Len(ret) - 1) : ret[i] < ret[i + 1]

\* C9 as amended: the anchors of detectColumnBoundaries are ascending; they are
\* strictly ascending when they come from the clustering fallback, and when
\* no row of the typical length holds two fragments at the same X (two
\* fragments of such a row at one X can give two equal anchors).
C9_AnchorsAscending ==
    call = "detectColumnBoundaries" =>
        /\ \A i \in 1..(Len(ret) - 1) : ret[i] <= ret[i + 1]
        /\ (\/ UsedFallback
            \/ \A r \in 1..Len(arg.rows) :
                  Len(arg.rows[r]) = arg.typicalCols =>
                      \A k \in 1..(Len(arg.rows[r]) - 1) :
                          arg.rows[r][k].x < arg.rows[r][k + 1].x)
              => \A i \in 1..(Len(ret) - 1) : ret[i] < ret[i + 1]

\* medians taken over three rows of the typical length whose first values
\* are not all at the same X
C9_Witness ==
    /\ call = "detectColumnBoundaries"
    /\ ~ UsedFallback
    /\ Len(ret) >= 2
    /\ Cardinality({r \in 1..Len(arg.rows) : Len(arg.rows[r]) = arg.typicalCols}) = 3
    /\ \E r \in 1..Len(arg.rows) :
          Len(arg.rows[r]) = arg.typicalCols /\ arg.rows[r][2].x # ret[2]

\* the fallback clustering several X into more than one anchor
C9_WitnessFallback ==
    /\ call = "detectColumnBoundaries"
    /\ UsedFallback
    /\ Len(ret) >= 2

\* equal anchors from a row with two fragments at one X
C9_WitnessEqual ==
    /\ call = "detectColumnBoundaries"
    /\ \E i \in 1..(Len(ret) - 1) : ret[i] = ret[i + 1]

IsStrictlyAscending(xs) == \A i \in 1..(Len(xs) - 1) : xs[i] < xs[i + 1]

\* a row with exactly one fragment at each anchor
IsOnAnchors(row, anchors) ==
    /\ Len(row) = Len(anchors)
    /\ \A k \in 1..Len(row) : row[k].x = anchors[k]

\* C10: with strictly ascending anchors, a row holding one fragment exactly at
\* each anchor is mapped to exactly its strings, in column order.
C10_GridRoundTrip ==
    call = "mapRowToColumns" =>
        (IsStrictlyAscending(arg.columnBoundaries) =>
            \A r \in 1..Len(arg.rows) :
                IsOnAnchors(arg.rows[r], arg.columnBoundaries) =>
                    ret[r] = [k \in 1..Len(arg.rows[r]) |-> arg.rows[r][k].str])

\* a grid of three rows and three columns, every string different
C10_Witness ==
    /\ call = "mapRowToColumns"
    /\ IsStrictlyAscending(arg.columnBoundaries)
    /\ Len(arg.columnBoundaries) = 3
    /\ Len(arg.rows) = 3
    /\ \A r \in 1..Len(arg.rows) : IsOnAnchors(arg.rows[r], arg.columnBoundaries)
    /\ Cardinality(UNION {Range(ret[r]) : r \in 1..Len(ret)}) = 9

\* the least Y of the fragments of a row
LeastY(row) == CHOOSE y \in {row[k].y : k \in 1..Len(row)} :
                   \A k \in 1..Len(row) : y <= row[k].y

GapBefore(i) == LeastY(arg.rows[i]) - LeastY(arg.rows[i - 1])

\* rows i-1 and i are neighbours in one of the returned segments
SameSegment(i) ==
    \E s \in 1..Len(ret) : \E k \in 2..Len(ret[s]) :
        ret[s][k - 1] = arg.rows[i - 1] /\ ret[s][k] = arg.rows[i]

\* row i is in no returned segment, or is the first row of one
StartsSegment(i) ==
    \A s \in 1..Len(ret) : \A k \in 1..Len(ret[s]) :
        ret[s][k] = arg.rows[i] => k = 1

\* C11: in splitIntoTables a gap between the least Y of two consecutive rows
\* equal to TABLE_GAP_THRESHOLD keeps them in one segment, and a greater gap
\* makes the later row the start of a new segment.
C11_GapBoundary ==
    call = "splitIntoTables" =>
        \A i \in 2..Len(arg.rows) :
            /\ GapBefore(i) = TABLE_GAP_THRESHOLD => SameSegment(i)
            /\ GapBefore(i) > TABLE_GAP_THRESHOLD
                  => ~ SameSegment(i) /\ StartsSegment(i)

\* three rows, the second exactly the threshold below the first and the
\* third one more than the threshold below the second, whose least Y is not
\* the Y of its first fragment
C11_Witness ==
    /\ call = "splitIntoTables"
    /\ Len(arg.rows) = 3
    /\ GapBefore(2) = TABLE_GAP_THRESHOLD
    /\ GapBefore(3) = TABLE_GAP_THRESHOLD + 1
    /\ Len(arg.rows[2]) = 2
    /\ ret = <<SubSeq(arg.rows, 1, 2)>>

\* the table that rowsToTable returned
ReturnedTable == call = "rowsToTable" /\ ret # NULL

HeaderRow == arg.mappedRows[arg.headerRowIndex + 1]

\* the trimmed cells of a mapped row right of the label column that are not
\* empty, in column order
RECURSIVE FilledRightOfLabel(_, _)
FilledRightOfLabel(row, j) ==
    IF j > Len(row) THEN <<>>
    ELSE (IF trim(row[j]) = "" THEN <<>> ELSE <<trim(row[j])>>)
            \o FilledRightOfLabel(row, j + 1)

KeysWithinHeaders(table) ==
    \A r \in 1..Len(table.rows) :
        DOMAIN table.rows[r].values \subseteq Range(table.headers)

C13_NoEmptyValue ==
    call = "detectTables" =>
        \A t \in 1..Len(ret) : \A r \in 1..Len(ret[t].rows) :
            \A h \in DOMAIN ret[t].rows[r].values :
                ret[t].rows[r].values[h] # ""

\* the columns (from 1) whose header cell is filled and is not its placeholder
KeyedColumns ==
    {j \in 1..(Len(HeaderRow) - 1) :
        trim(HeaderRow[j + 1]) \notin {"", "Column " \o ToString(j)}}

\* the mapped row a row record was made from: its id ends in the row index
MappedRowOf(record) ==
    arg.mappedRows[1 + CHOOSE i \in 0..(Len(arg.mappedRows) - 1) :
        record.id = "table-" \o ToString(arg.tableIndex) \o "-row-" \o ToString(i)]

\* the last column with the header text h
LastColumnOf(h) ==
    CHOOSE j \in KeyedColumns :
        /\ trim(HeaderRow[j + 1]) = h
        /\ \A k \in KeyedColumns : trim(HeaderRow[k + 1]) = h => k <= j

\* C13 as amended: a row record has a key for every column whose header cell
\* is filled (and is not the placeholder of its column), and the key maps to
\* the trimmed cell of the row in that column: an empty or missing cell is
\* stored as the empty string, not left out.
C13_EmptyCellStoredAsEmptyString ==
    ReturnedTable =>
        \A r \in 1..Len(ret[1].rows) :
            LET record == ret[1].rows[r]
            IN  /\ DOMAIN record.values = {trim(HeaderRow[j + 1]) : j \in KeyedColumns}
                /\ \A h \in DOMAIN record.values :
                      record.values[h] = trim(MappedRowOf(record)[LastColumnOf(h) + 1])

\* a row record with a value under one header and the empty string under
\* another
C13_Witness ==
    /\ ReturnedTable
    /\ \E r \in 1..Len(ret[1].rows) :
          LET values == ret[1].rows[r].values
          IN  \E h, g \in DOMAIN values : values[h] = "" /\ values[g] # ""

\* a ParsedTable: id, headers and row records of id, label and values
IsParsedTable(t) ==
    /\ DOMAIN t = {"id", "headers", "rows"}
    /\ \A r \in 1..Len(t.rows) : DOMAIN t.rows[r] = {"id", "label", "values"}

\* how many rows the fragments of the list group into
RowCount == Len(groupIntoRows(items))

C14_WitnessEmpty ==
    /\ call = "detectTables"
    /\ items = <<>>
    /\ ret = <<>>
    /\ ui = <<>>

\* two rows or more that make no table
C14_WitnessNoTable ==
    /\ call = "detectTables"
    /\ RowCount >= MIN_TABLE_ROWS
    /\ ret = <<>>
    /\ ui = <<>>

\* rowsToTable got as far as mapping the rows of the segment to columns
MappedSegment == call = "rowsToTable" /\ "mappedRows" \in DOMAIN arg

\* C15: every table that detectTables or rowsToTable returns has at least
\* one row record; a segment with no surviving data row gives no table.
C15_NoTableWithoutRows ==
    /\ call = "detectTables" => \A t \in 1..Len(ret) : Len(ret[t].rows) >= 1
    /\ call = "rowsToTable" => (ret # NULL => Len(ret[1].rows) >= 1)

\* a segment of a header row and a data row, mapped to columns, whose data
\* row does not survive: no table
C15_Witness ==
    /\ MappedSegment
    /\ Len(arg.mappedRows) >= 2
    /\ arg.headerRowIndex + 1 < Len(arg.mappedRows)
    /\ ret = NULL

C17_OrderIndependent ==
    call = "detectTablesReordered" => ret = detectTables(items)

\* no two fragments of different text are at the same X and Y
NoTwoAtOnePlace ==
    \A i, j \in 1..Len(items) :
        (items[i].x = items[j].x /\ items[i].y = items[j].y)
            => items[i].str = items[j].str

\* C17 as amended: when no two fragments of different text are at the same X
\* and Y, detectTables of the list in another order returns what detectTables
\* of the list returns.
C17_OrderIndependentUnlessCoincident ==
    (call = "detectTablesReordered" /\ NoTwoAtOnePlace)
        => ret = detectTables(items)

\* the five fragments of a table with a cell of two fragments, in two
\* different orders, with the table they both give
C17_Witness ==
    /\ call = "detectTablesReordered"
    /\ NoTwoAtOnePlace
    /\ Len(items) = 5
    /\ arg.permuted # items
    /\ Len(ret) = 1
    /\ ret[1].rows[1].values = [h \in {"Calories"} |-> "290 %"]

\* two fragments at one place joined in the order of the list
C17_WitnessCoincident ==
    /\ call = "detectTablesReordered"
    /\ ~ NoTwoAtOnePlace
    /\ Len(ret) = 1
    /\ ret[1].rows[1].label = "Pizza Cheese"
    /\ ret # detectTables(items)

----------------------------------------------------------------------------
(* Properties of parsePdfFromUrl (SpecParse) *)

\* every step before the table detection went through: an http(s) URL with
\* a host, a response with a success status, a PDF or undeclared content
\* type, a declared and an actual size within the limit, a readable body
\* and an extraction that yields its fragments
ExtractionSucceeded ==
    /\ call = "parsePdfFromUrl"
    /\ LET u == toLowerCase(arg.url)
       IN /\ startsWith(u, "http://") \/ startsWith(u, "https://")
          /\ u \notin {"http://", "https://"}
    /\ ~arg.env.fetchThrows
    /\ arg.env.status = 200
    /\ arg.env.contentType \in {NULL, Some("application/pdf")}
    /\ arg.env.contentLength \in {NULL, Some(MAX_PDF_SIZE)}
    /\ ~arg.env.bodyThrows
    /\ arg.env.byteLength <= MAX_PDF_SIZE
    /\ ~arg.env.extractThrows

IsParseResult == call = "parsePdfFromUrl" /\ "thrown" \notin DOMAIN ret

ThrownType(type) ==
    /\ call = "parsePdfFromUrl"
    /\ "thrown" \in DOMAIN ret
    /\ "type" \in DOMAIN ret.thrown
    /\ ret.thrown.type = type

\* C18: parsePdfFromUrl returns a ParseResult only when detectTables returned
\* at least one table, the tables of the result being those, and throws an
\* error of type NO_TABLES whenever the extraction succeeded and detectTables
\* returned the empty list.
C18_ZeroTablesIsNoTables ==
    call = "parsePdfFromUrl" =>
        /\ IsParseResult =>
              /\ detectTables(items) # <<>>
              /\ ret.tables = detectTables(items)
              /\ ret.sourceUrl = arg.url
        /\ (ExtractionSucceeded /\ detectTables(items) = <<>>) =>
              ThrownType("NO_TABLES")

\* the extraction yields the scenario's fragments with the data row beyond
\* the table gap, no table is detected, and NO_TABLES is thrown
C18_Witness ==
    /\ ExtractionSucceeded
    /\ items # <<>>
    /\ detectTables(items) = <<>>
    /\ ThrownType("NO_TABLES")

\* the extraction yields fragments that make a table, and a result is returned
C18_WitnessResult ==
    /\ ExtractionSucceeded
    /\ IsParseResult
    /\ Len(ret.tables) = 1

----------------------------------------------------------------------------
(* Properties of mapRowToColumns (SpecMap) *)

\* the leftmost of the anchors at the least distance from the fragment
NearestAnchor(item, anchors) ==
    CHOOSE c \in 1..Len(anchors) :
        /\ \A d \in 1..Len(anchors) :
              Abs(item.x - anchors[c]) <= Abs(item.x - anchors[d])
        /\ \A d \in 1..(c - 1) :
              Abs(item.x - anchors[c]) < Abs(item.x - anchors[d])

\* the indices of the row's fragments assigned to anchor c
AssignedTo(row, anchors, c) ==
    {k \in 1..Len(row) : NearestAnchor(row[k], anchors) = c}

\* the texts of the fragments at indices ks of the row, in the order of the
\* row, with one space between two of them
RECURSIVE JoinedTexts(_, _)
JoinedTexts(row, ks) ==
    IF ks = {} THEN ""
    ELSE LET last == CHOOSE k \in ks : \A j \in ks : j <= k
         IN  IF ks = {last} THEN row[last].str
             ELSE JoinedTexts(row, ks \ {last}) \o " " \o row[last].str

\* the fragments of the row are in left-to-right order
IsLeftToRight(row) == \A k \in 1..(Len(row) - 1) : row[k].x <= row[k + 1].x

\* C19: mapRowToColumns gives one cell for each anchor; the cell holds the
\* texts of exactly the fragments whose nearest anchor it is (the leftmost of
\* the nearest on a tie, however far away it is), in the left-to-right order
\* of the row and joined by one space, and is empty when there is no such
\* fragment.
C19_CellsOfNearestAnchor ==
    (call = "mapRowToColumns" /\ Len(arg.columnBoundaries) >= 1) =>
        \A r \in 1..Len(arg.rows) :
            /\ IsLeftToRight(arg.rows[r])
            /\ Len(ret[r]) = Len(arg.columnBoundaries)
            /\ \A c \in 1..Len(arg.columnBoundaries) :
                  ret[r][c] = JoinedTexts(arg.rows[r],
                                  AssignedTo(arg.rows[r], arg.columnBoundaries, c))

\* three anchors; the last row has its label and the fragments 64 and 65
\* from the first anchor (the latter as far from the second) in the first
\* cell, the fragment 650 right of the last anchor in the last cell, and
\* nothing in the middle cell
C19_Witness ==
    /\ call = "mapRowToColumns"
    /\ arg.columnBoundaries = <<20, 150, 250>>
    /\ Len(arg.rows) = 3
    /\ ret[3] = <<"Thin Crust Pizza", "", "kcal">>

----------------------------------------------------------------------------
(* Properties of findHeaderRowIndex (SpecHeaderRow) *)

\* the cells of MappedRowKinds that are numbers once commas, percent signs
\* and spaces are taken out
NumericTexts == {"290", "1,200", "5 %"}

\* the cells of MappedRowKinds with nothing but spaces in them
BlankTexts == {"", " "}

\* the non-empty cells of a row after its label
NonEmptyCells(row) == {j \in 2..Len(row) : row[j] \notin BlankTexts}

\* the rows, counted from 0 and among the first five, with more than half of
\* their non-empty non-label cells outside numeric
RowsMostlyOutside(mappedRows, numeric) ==
    {i \in 0..((IF Len(mappedRows) < 5 THEN Len(mappedRows) ELSE 5) - 1) :
        LET row == mappedRows[i + 1]
        IN  2 * Cardinality({j \in NonEmptyCells(row) : row[j] \notin numeric})
                > Cardinality(NonEmptyCells(row))}

FirstOrZero(S) == IF S = {} THEN 0 ELSE CHOOSE i \in S : \A k \in S : i <= k

\* C20: findHeaderRowIndex returns the index of the first row, among at most
\* the first 5 rows, in which more than half of the non-empty non-label cells
\* are non-numeric, and 0 when there is no such row; for the rows
\* <<"Item", "Calories", "Fat">>, <<"Cheese Pizza", "290", "12g">> it
\* returns 0.
C20_FirstNonNumericRow ==
    call = "findHeaderRowIndex" =>
        ret = FirstOrZero(RowsMostlyOutside(arg.mappedRows, NumericTexts))

\* The same with a cell of symbols only ("%") counted with the numbers, as
\* Number("") is 0: this is what the function computes.
C20_FirstTextRow ==
    call = "findHeaderRowIndex" =>
        ret = FirstOrZero(RowsMostlyOutside(arg.mappedRows, NumericTexts \cup {"%"}))

\* the example of the claim
C20_WitnessExample ==
    /\ call = "findHeaderRowIndex"
    /\ arg.mappedRows = <<<<"Item", "Calories", "Fat">>,
                          <<"Cheese Pizza", "290", "12g">>>>
    /\ ret = 0

\* the header row is the sixth row, after five rows that are not: 0 is
\* returned
C20_WitnessBeyondFive ==
    /\ call = "findHeaderRowIndex"
    /\ Len(arg.mappedRows) = 6
    /\ arg.mappedRows[6] = <<"Item", "Calories", "Fat">>
    /\ \A i \in 1..5 : arg.mappedRows[i] = <<"Cheese Pizza", "290", "12g">>
    /\ ret = 0

\* a row of numbers, then a row whose only non-empty cell is a percent sign:
\* the row is not taken as the header row
C20_WitnessSymbolCell ==
    /\ call = "findHeaderRowIndex"
    /\ arg.mappedRows = <<<<"Thin Crust", "1,200", "5 %">>,
                          <<"Daily Value", "%", "">>>>
    /\ ret = 0

----------------------------------------------------------------------------
(* Properties of the data rows (SpecDataRows) *)

\* the cells of DataRowKinds that are numbers
DataNumericTexts == {"290", "30", "5", "7", "12", "3", "42"}

\* the numeric cells of a mapped row after its label
NumericAfterLabel(row) ==
    Cardinality({j \in 2..Len(row) : row[j] \in DataNumericTexts})

\* the rows (counted from 0) after the header row with a label of two
\* characters or more
LabelledRows ==
    {i \in 1..(Len(arg.mappedRows) - 1) : Len(arg.mappedRows[i + 1][1]) >= 2}

\* row i of the mapped rows gave no row of the table
Skipped(i) ==
    \/ ret = NULL
    \/ \A k \in 1..Len(ret[1].rows) :
          ret[1].rows[k].id # rowId(arg.tableIndex, i)

\* C21: a row after the header is skipped as a non-data row when its label
\* cell is non-numeric and fewer than one third of its remaining cells are
\* numeric; a row that does not meet this and has a label of two characters
\* or more is not skipped.
C21_SkippedByLabelAndShare ==
    call = "processDataRows" =>
        \A i \in LabelledRows :
            LET row == arg.mappedRows[i + 1]
            IN  Skipped(i) <=>
                    /\ row[1] \notin DataNumericTexts
                    /\ 3 * NumericAfterLabel(row) < Len(row) - 1

\* C21 as amended: the row is skipped when its first data cell (column 1) is
\* non-empty and non-numeric and the number of numeric cells after the label
\* is less than one third of the length of the whole row, label included;
\* any other row with a label of two characters or more is kept.
C21_SkippedByFirstCellAndCount ==
    call = "processDataRows" =>
        \A i \in LabelledRows :
            LET row == arg.mappedRows[i + 1]
            IN  Skipped(i) <=>
                    /\ row[2] # ""
                    /\ row[2] \notin DataNumericTexts
                    /\ 3 * NumericAfterLabel(row) < Len(row)

\* a row with text and one number is skipped, a row with text and two
\* numbers is kept, and so is a row with no cell filled
C21_Witness ==
    /\ call = "processDataRows"
    /\ arg.mappedRows = <<DataHeaderRow, <<"Sauce", "mild", "5", "">>,
                          <<"Crust", "thin", "5", "7">>,
                          <<"Plain", "", "", "">>>>
    /\ Skipped(1)
    /\ ~Skipped(2)
    /\ ~Skipped(3)

----------------------------------------------------------------------------
(* Properties of placeholder header texts (SpecPlaceholder) *)

\* the text of the header cell of column n, as the input has it
HeaderCellText(n) ==
    LET k == CHOOSE k \in 1..Len(items) :
                 items[k].y = 100 /\ items[k].x = PlaceholderColumnXs[n + 1]
    IN  items[k].str

\* the columns whose header cell, trimmed, is the placeholder of the column
OwnPlaceholderColumns ==
    {n \in 1..2 : HeaderCellText(n) \in {columnPlaceholder(n),
                                         columnPlaceholder(n) \o " "}}

\* C22: in every table returned by detectTables, a header cell whose trimmed
\* text is the placeholder "Column N" of its own column N is absent from the
\* headers of the table.
C22_PlaceholderAbsentFromHeaders ==
    call = "detectTables" =>
        \A t \in 1..Len(ret) : \A n \in OwnPlaceholderColumns :
            columnPlaceholder(n) \notin Range(ret[t].headers)

\* such a header cell is the key of no value of any row of the table
C22_PlaceholderAbsentFromValues ==
    call = "detectTables" =>
        \A t \in 1..Len(ret) : \A n \in OwnPlaceholderColumns :
            \A r \in 1..Len(ret[t].rows) :
                columnPlaceholder(n) \notin DOMAIN ret[t].rows[r].values

\* a table whose column 1 is headed "Column 1": the rows have a value for
\* the other column only
C22_WitnessPlaceholder ==
    /\ call = "detectTables"
    /\ OwnPlaceholderColumns = {1}
    /\ Len(ret) = 1
    /\ \A r \in 1..Len(ret[1].rows) : DOMAIN ret[1].rows[r].values = {"Fat"}

----------------------------------------------------------------------------
(* Properties of findTypicalColumnCount (SpecTypical) *)

\* the number of rows of arg.rows that have n fragments
Frequency(n) == Cardinality({r \in 1..Len(arg.rows) : Len(arg.rows[r]) = n})

\* the lengths of at least MIN_COLUMNS that no such length is more frequent
\* than
MostFrequentLengths ==
    LET Wide == {Len(arg.rows[r]) : r \in 1..Len(arg.rows)} \ (0..(MIN_COLUMNS - 1))
    IN  {n \in Wide : \A k \in Wide : Frequency(k) <= Frequency(n)}

\* the index of the first row with n fragments
FirstSeen(n) ==
    CHOOSE r \in 1..Len(arg.rows) :
        /\ Len(arg.rows[r]) = n
        /\ \A q \in 1..(r - 1) : Len(arg.rows[q]) # n

\* C23: findTypicalColumnCount returns the most frequent row length among
\* the rows of at least MIN_COLUMNS fragments, of several equally frequent
\* lengths the one seen first in row order, and 0 when no row has
\* MIN_COLUMNS fragments.
C23_MostFrequentFirstSeen ==
    call = "findTypicalColumnCount" =>
        IF MostFrequentLengths = {} THEN ret = 0
        ELSE /\ ret \in MostFrequentLengths
             /\ \A n \in MostFrequentLengths : FirstSeen(ret) <= FirstSeen(n)

\* C23 as amended: of several equally frequent lengths the smallest is
\* returned, wherever the rows of that length are.
C23_MostFrequentSmallest ==
    call = "findTypicalColumnCount" =>
        IF MostFrequentLengths = {} THEN ret = 0
        ELSE /\ ret \in MostFrequentLengths
             /\ \A n \in MostFrequentLengths : ret <= n

\* a row of three fragments, then a row of two: both lengths as frequent,
\* and 2 is returned
C23_Witness ==
    /\ call = "findTypicalColumnCount"
    /\ Len(arg.rows) = 2
    /\ Len(arg.rows[1]) = 3
    /\ Len(arg.rows[2]) = 2
    /\ ret = 2

\* rows of one fragment only: 0 is returned
C23_WitnessNone ==
    /\ call = "findTypicalColumnCount"
    /\ Len(arg.rows) = 2
    /\ MostFrequentLengths = {}
    /\ ret = 0

----------------------------------------------------------------------------
(* Properties of the segments (SpecSplit) *)

\* rows s..e of arg.rows are a maximal run: no gap inside is greater than
\* TABLE_GAP_THRESHOLD, and the run cannot be extended at either end
IsMaximalRun(s, e) ==
    /\ 1 <= s /\ s <= e /\ e <= Len(arg.rows)
    /\ \A i \in (s + 1)..e : GapBefore(i) <= TABLE_GAP_THRESHOLD
    /\ s = 1 \/ GapBefore(s) > TABLE_GAP_THRESHOLD
    /\ e = Len(arg.rows) \/ GapBefore(e + 1) > TABLE_GAP_THRESHOLD

MaximalRuns ==
    {se \in (1..Len(arg.rows)) \X (1..Len(arg.rows)) : IsMaximalRun(se[1], se[2])}

RunRows(se) == SubSeq(arg.rows, se[1], se[2])

\* C24: every segment splitIntoTables returns has at least MIN_TABLE_ROWS
\* rows and is a maximal run of the rows, in their order, with no gap
\* greater than TABLE_GAP_THRESHOLD; every maximal run of at least
\* MIN_TABLE_ROWS rows is returned, in the order of the rows, whatever
\* shorter runs (the last one included) are dropped around it.
C24_SegmentsAreLongRuns ==
    call = "splitIntoTables" =>
        /\ \A k \in 1..Len(ret) :
              /\ Len(ret[k]) >= MIN_TABLE_ROWS
              /\ \E se \in MaximalRuns : ret[k] = RunRows(se)
        /\ \A se \in MaximalRuns :
              (se[2] - se[1] + 1 >= MIN_TABLE_ROWS)
                  => \E k \in 1..Len(ret) : ret[k] = RunRows(se)
        /\ \A k \in 1..(Len(ret) - 1) :
              \E se, tf \in MaximalRuns :
                  /\ ret[k] = RunRows(se)
                  /\ ret[k + 1] = RunRows(tf)
                  /\ se[2] < tf[1]

\* five rows: two together, one alone and two together; the two pairs are
\* returned and the row between them is not
C24_Witness ==
    /\ call = "splitIntoTables"
    /\ Len(arg.rows) = 5
    /\ MaximalRuns = {<<1, 2>>, <<3, 3>>, <<4, 5>>}
    /\ ret = <<RunRows(<<1, 2>>), RunRows(<<4, 5>>)>>

\* the last row alone after a run of three: it is dropped
C24_WitnessLast ==
    /\ call = "splitIntoTables"
    /\ MaximalRuns = {<<1, 3>>, <<4, 4>>}
    /\ ret = <<RunRows(<<1, 3>>)>>

----------------------------------------------------------------------------
(* Properties of the rows as a partition (Spec) *)

\* how many times fragment f is in the input, and in the rows
TimesInInput(f) == Cardinality({k \in 1..Len(items) : items[k] = f})

TimesInRows(f) ==
    Cardinality({rk \in (1..Len(ret)) \X (1..Len(items)) :
                    rk[2] <= Len(ret[rk[1]]) /\ ret[rk[1]][rk[2]] = f})

FragmentsOfRows == UNION {Range(ret[r]) : r \in 1..Len(ret)}

\* C25: groupIntoRows (either version) partitions its input: every fragment
\* is in the rows as many times as in the input, no row is empty, and every
\* fragment of a row has a Y less than or equal to the Y of every fragment of
\* the next row.
C25_RowsPartitionInput ==
    call \in {"groupIntoRows", "groupIntoRowsFirstY"} =>
        /\ \A f \in Range(items) \cup FragmentsOfRows :
              TimesInRows(f) = TimesInInput(f)
        /\ \A r \in 1..Len(ret) : Len(ret[r]) > 0
        /\ \A r \in 1..(Len(ret) - 1) :
              \A a \in Range(ret[r]), b \in Range(ret[r + 1]) : a.y <= b.y

\* an input with one fragment twice, grouped into a row of three fragments
\* and a row of one
C25_Witness ==
    /\ call = "groupIntoRows"
    /\ Len(items) = 4
    /\ \E k, l \in 1..Len(items) : k # l /\ items[k] = items[l]
    /\ Len(ret) = 2
    /\ Len(ret[1]) = 3

----------------------------------------------------------------------------
(* Properties of the anchors of a table (Spec) *)

\* rowsToTable went on to detectColumnBoundaries and past the test of the
\* number of anchors
ReachedMapping == call = "rowsToTable" /\ "mappedRows" \in DOMAIN arg

\* rowsToTable went on to detectColumnBoundaries
ReachedBoundaries ==
    /\ call = "rowsToTable"
    /\ Len(arg.rows) >= MIN_TABLE_ROWS
    /\ \E n \in MIN_COLUMNS..Len(items) : \E r \in 1..Len(arg.rows) :
          Len(arg.rows[r]) = n

\* C26: whenever rowsToTable reaches detectColumnBoundaries, at least one row
\* has exactly typicalColumnCount fragments (the clustering fallback is not
\* used) and the anchor list has exactly typicalColumnCount entries, at
\* least MIN_COLUMNS (the test of the number of anchors discards nothing).
C26_NoFallbackNoDiscard ==
    ReachedBoundaries =>
        /\ ReachedMapping
        /\ arg.typicalCols >= MIN_COLUMNS
        /\ \E r \in 1..Len(arg.rows) : Len(arg.rows[r]) = arg.typicalCols
        /\ Len(arg.columnBoundaries) = arg.typicalCols
        /\ \A r \in 1..Len(arg.mappedRows) :
              Len(arg.mappedRows[r]) = arg.typicalCols

\* rows of two and of three fragments: the typical count is that of the
\* rows of three, and there are three anchors
C26_Witness ==
    /\ ReachedMapping
    /\ {Len(arg.rows[r]) : r \in 1..Len(arg.rows)} = {2, 3}
    /\ arg.typicalCols = 3
    /\ Len(arg.columnBoundaries) = 3

----------------------------------------------------------------------------
(* Properties of CalibrationView (SpecCalibration) *)

\* C27: whenever Confirm is enabled (the step is "label" and
\* labelColumnIndex is not null), headerRowIndex is not null and
\* labelColumnIndex is an index of a cell of the selected header row.
C27_ConfirmHasValidSelection ==
    (ui.step = "label" /\ ui.labelColumnIndex # NULL) =>
        /\ ui.headerRowIndex # NULL
        /\ ui.labelColumnIndex[1] >= 0
        /\ ui.labelColumnIndex[1]
              < Len(ui.rawRows[ui.headerRowIndex[1] + 1].cells)

\* the part of it about the header row: it is selected, and is one of the
\* rows
C27_ConfirmHasHeaderRow ==
    (ui.step = "label" /\ ui.labelColumnIndex # NULL) =>
        /\ ui.headerRowIndex # NULL
        /\ ui.headerRowIndex[1] \in 0..(Len(ui.rawRows) - 1)

\* Confirm is enabled on the third cell of a header row of three cells
C27_WitnessConfirm ==
    /\ ui.step = "label"
    /\ ui.closed = "no"
    /\ ui.labelColumnIndex = Some(2)
    /\ ui.headerRowIndex # NULL
    /\ Len(ui.rawRows[ui.headerRowIndex[1] + 1].cells) = 3

----------------------------------------------------------------------------
(* Properties of the POST handler (SpecRoute) *)

\* the status the handler is to answer each type of ParseError with
StatusOfType ==
    [INVALID_URL |-> 400, NOT_A_PDF |-> 400, FETCH_FAILED |-> 502,
     TOO_LARGE |-> 413, PARSE_FAILED |-> 422, NO_TABLES |-> 422]

\* the body was read, and has no url or a url that is not a string
UrlMissingOrNotString ==
    /\ arg.body.kind \in {"number", "object"}
    /\ \/ arg.body.kind = "number"
       \/ arg.body.url = NULL
       \/ arg.body.url[1].type # "string"

\* what the parser does when it is called with the url of the body
ParserOutcome == parsePdfFromUrl(arg.body.url[1].value, arg.env, items)

IsFailure(type, status) ==
    /\ ret.status = status
    /\ ret.json.success = FALSE
    /\ ret.json.error.type = type

\* C30: the handler always answers with a JSON body. A missing or
\* non-string url gives 400 INVALID_URL and the parser is not called; a
\* thrown ParseError gives 400 for INVALID_URL and NOT_A_PDF, 502 for
\* FETCH_FAILED, 413 for TOO_LARGE and 422 for the other types, with the
\* error as thrown; any other thrown value (from reading the request or
\* from the parser) gives 500 PARSE_FAILED; success is true only when the
\* parser was called and returned, and the data are its result.
C30_AlwaysAJsonAnswer ==
    call = "POST" =>
        /\ DOMAIN ret = {"status", "json"}
        /\ "success" \in DOMAIN ret.json
        /\ UrlMissingOrNotString =>
              IsFailure("INVALID_URL", 400) /\ ~arg.parserCalled
        /\ arg.body.kind \in {"invalid", "null"} =>
              IsFailure("PARSE_FAILED", 500) /\ ~arg.parserCalled
        /\ arg.parserCalled =>
              IF "thrown" \notin DOMAIN ParserOutcome
              THEN ret = [status |-> 200,
                          json |-> [success |-> TRUE, data |-> ParserOutcome]]
              ELSE IF "type" \in DOMAIN ParserOutcome.thrown
              THEN /\ IsFailure(ParserOutcome.thrown.type,
                                StatusOfType[ParserOutcome.thrown.type])
                   /\ ret.json.error = ParserOutcome.thrown
              ELSE IsFailure("PARSE_FAILED", 500)
        /\ ret.json.success =>
              arg.parserCalled /\ "thrown" \notin DOMAIN ParserOutcome

\* the parser is called, finds no table, and the answer is 422 NO_TABLES
C30_Witness ==
    /\ call = "POST"
    /\ arg.parserCalled
    /\ IsFailure("NO_TABLES", 422)

\* the parser throws a value that is not a ParseError: the answer is 500
C30_WitnessOtherThrown ==
    /\ call = "POST"
    /\ arg.parserCalled
    /\ "thrown" \in DOMAIN ParserOutcome
    /\ "type" \notin DOMAIN ParserOutcome.thrown
    /\ IsFailure("PARSE_FAILED", 500)

\* the body is the JSON null: the destructuring throws and the answer is 500
C30_WitnessNullBody ==
    /\ call = "POST"
    /\ arg.body.kind = "null"
    /\ IsFailure("PARSE_FAILED", 500)

----------------------------------------------------------------------------
(* C28: HomeContent shows a view only with the data the view needs *)

\* the views that show the parse result, and those that show a selected row
ResultViews == {"select-table", "query", "result", "details"}

RowViews == {"result", "details"}

\* what handleReset leaves behind
IsReset(state) ==
    /\ state.parseResult = NULL
    /\ state.selectedRow = NULL
    /\ state.selectedColumn = NULL
    /\ state.error = NULL
    /\ state.view = "input"

\* C28: in every reachable state of the URL flow, a view among select-table,
\* query, result and details has a parseResult and a selectedTableIndex that
\* is an index into its tables; a view among result and details has a
\* selectedRow and a selectedColumn, and the selectedRow is one of the rows of
\* the table at selectedTableIndex; and a step of handleReset ends with
\* parseResult, selectedRow, selectedColumn and error null and view "input".
C28_ViewsHaveTheirData ==
    /\ [](/\ ui.view \in ResultViews =>
                /\ ui.parseResult # NULL
                /\ ui.selectedTableIndex \in 0..(Len(ui.parseResult[1].tables) - 1)
          /\ ui.view \in RowViews =>
                /\ ui.selectedRow # NULL
                /\ ui.selectedColumn # NULL
                /\ ui.selectedRow[1] \in
                      Range(ui.parseResult[1].tables[ui.selectedTableIndex + 1].rows))
    /\ [][handleReset => IsReset(ui')]_vars

\* the details of a row of the second table are on screen
C28_Witness ==
    /\ ui.view = "details"
    /\ ui.selectedTableIndex = 1
    /\ ui.selectedRow # NULL
    /\ ui.selectedRow[1].id = rowId(1, 1)

----------------------------------------------------------------------------
(* C29: a submission leaves "loading" *)

\* C29: a view of "loading" is eventually left once the request settles, and
\* the step that leaves it ends in view "input" with an error and no
\* parseResult, or in view "select-table" with a parseResult of more than one
\* table, or in view "query" with a parseResult of at most one table.
C29_SubmissionSettles ==
    /\ (ui.view = "loading") ~> (ui.view # "loading")
    /\ [][ui.view = "loading" /\ ui'.view # "loading" =>
            \/ /\ ui'.view = "input"
               /\ ui'.error # NULL
               /\ ui'.parseResult = NULL
            \/ /\ ui'.view = "select-table"
               /\ ui'.parseResult # NULL
               /\ Len(ui'.parseResult[1].tables) > 1
            \/ /\ ui'.view = "query"
               /\ ui'.parseResult # NULL
               /\ Len(ui'.parseResult[1].tables) <= 1]_vars

\* a submission ended with the choice between two tables
C29_Witness ==
    /\ ui.view = "select-table"
    /\ ui.pending = NULL
    /\ ui.parseResult # NULL
    /\ Len(ui.parseResult[1].tables) = 2
    /\ ui.selectedRow = NULL

\* a submission ended with the message of the server's failure
C29_WitnessFailureResponse ==
    /\ ui.view = "input"
    /\ ui.pending = NULL
    /\ ui.error \notin {NULL, Some("Failed to connect. Please try again.")}

\* a submission ended in the catch block
C29_WitnessThrown ==
    /\ ui.view = "input"
    /\ ui.error = Some("Failed to connect. Please try again.")

============================================================================
